---------------------------- MODULE Spec2Model ----------------------------
(***************************************************************************)
(* Energy-analytics query pipeline: equation registry, formula evaluator,  *)
(* fallback-value provider and the answer_query orchestrator.              *)
(*                                                                         *)
(* Numbers are exact rationals [n, d] with d > 0 in lowest terms; Python's *)
(* float rounding is not modelled.  A record with d = 0 is not a number:   *)
(* None is Python's None, Raise an exception escaping the callee.          *)
(***************************************************************************)
EXTENDS Integers, Sequences, FiniteSets, TLC

VARIABLES
    api_key,      \* LLMProvider.api_key is set (TRUE) or missing (FALSE)
    equations,    \* EquationRegistry.equations: metric -> cached equation
    value_cache,  \* LLMProvider.value_cache: cache key -> number
    dfs,          \* CSVStore.dfs: the loaded tables, in load order
    last,         \* what the last registry / pipeline call did and returned
    fb,           \* what the last fallback-value call did and returned
    served,       \* history: fallback request -> value it first returned
    ev,           \* one evaluate call on drawn inputs: inputs, path, result
    crf,          \* one capital-recovery-factor computation: inputs, results
    parse,        \* one parse_nfg_intent call: attempts, replies, calls, result
    collector,    \* Metrics._instance._metrics and the threads tracking calls
    chat          \* chat_sessions: session id -> history, and the last response

vars == <<api_key, equations, dfs, value_cache, last, fb, served, ev, crf,
          parse, collector, chat>>

-----------------------------------------------------------------------------
(* Numbers *)

None == [n |-> 0, d |-> 0]
Raise == [n |-> 1, d |-> 0]

IsNum(x) == x.d > 0

Abs(i) == IF i < 0 THEN -i ELSE i

RECURSIVE Gcd(_, _)
Gcd(a, b) == IF b = 0 THEN a ELSE Gcd(b, a % b)

Norm(p, q) ==
    LET s == IF q < 0 THEN -1 ELSE 1
        g == Gcd(Abs(p), Abs(q))
    IN  [n |-> (s * p) \div g, d |-> (s * q) \div g]

Num(i) == [n |-> i, d |-> 1]
Frac(p, q) == Norm(p, q)

\* x + y, x - y, x * y on floats; an operand that is None raises TypeError
Add(x, y) == IF IsNum(x) /\ IsNum(y) THEN Norm(x.n * y.d + y.n * x.d, x.d * y.d) ELSE Raise
Sub(x, y) == IF IsNum(x) /\ IsNum(y) THEN Norm(x.n * y.d - y.n * x.d, x.d * y.d) ELSE Raise
Mul(x, y) == IF IsNum(x) /\ IsNum(y) THEN Norm(x.n * y.n, x.d * y.d) ELSE Raise

\* x / y: ZeroDivisionError when y is zero
Div(x, y) ==
    IF IsNum(x) /\ IsNum(y) /\ y.n # 0 THEN Norm(x.n * y.d, x.d * y.n) ELSE Raise

RECURSIVE Pow(_, _)
Pow(x, k) == IF k = 0 THEN Num(1) ELSE Mul(x, Pow(x, k - 1))

Less(x, y) == x.n * y.d < y.n * x.d

-----------------------------------------------------------------------------
(* Capital recovery factor: the namespace lambda and the helper method *)

\* the mutant drops the zero-rate branch of the lambda
CRF_NoZeroBranch(wacc, n) ==
    Div(Mul(wacc, Pow(Add(Num(1), wacc), n)), Sub(Pow(Add(Num(1), wacc), n), Num(1)))

\* 'CRF': lambda wacc, n: wacc*(1+wacc)**n / ((1+wacc)**n - 1) if wacc != 0 else 1/n
CRF(wacc, n) ==
    IF wacc # Num(0)
    THEN Div(Mul(wacc, Pow(Add(Num(1), wacc), n)), Sub(Pow(Add(Num(1), wacc), n), Num(1)))
    ELSE Div(Num(1), Num(n))

\* def _crf(self, wacc, n)
_crf(wacc, n) ==
    IF wacc = Num(0)
    THEN Div(Num(1), Num(n))
    ELSE Div(Mul(wacc, Pow(Add(Num(1), wacc), n)), Sub(Pow(Add(Num(1), wacc), n), Num(1)))

-----------------------------------------------------------------------------
(* Variable bindings: a Python dict, kept in insertion order *)

Keys(variables) == {variables[i].k : i \in DOMAIN variables}

Lookup(variables, name) ==
    variables[CHOOSE i \in DOMAIN variables : variables[i].k = name].v

SetMin(S) == CHOOSE i \in S : \A j \in S : i <= j

\* next((var for var in variables.keys() if var in matching), None), as an
\* index into variables: 0 stands for None
FirstKey(variables, matching) ==
    LET S == {i \in DOMAIN variables : variables[i].k \in matching}
    IN  IF S = {} THEN 0 ELSE SetMin(S)

\* float(x): TypeError on None
Float(x) == IF IsNum(x) THEN x ELSE Raise

-----------------------------------------------------------------------------
(* Formula texts the knowledge source may answer, and what Python's string *)
(* tests and SymPy's parser make of each.                                  *)

F_CF == "GENERATION_GWh * 1000 / (CAPACITY_MW * 8760)"
F_RATIO == "GENERATION_GWh / CAPACITY_MW"
F_LCOE == "TOTAL_GEN_COST_kUSD / GENERATION_GWh"
F_NAME == "UNIT_CAPACITY_MW"
F_SUM == "sum([UNIT_CAPACITY_MW])"
F_FORI == "SUM(UNIT_CAPACITY_MW_i for i=1..N)"
F_BAD == "GENERATION_GWh / / CAPACITY_MW"

VarNames ==
    {"GENERATION_GWh", "CAPACITY_MW", "TOTAL_GEN_COST_kUSD", "UNIT_CAPACITY_MW",
     "UNIT_OUTPUT_MW", "GENERATOR_OUTPUT_MW"}

\* 'SUM(' in formula or 'sum(' in formula
HasSumCall(formula) == formula \in {F_SUM, F_FORI}

\* 'for i=' in formula
HasIndexRange(formula) == formula \in {F_FORI}

\* var_name in formula, a substring test
OccursIn(name, formula) ==
    CASE formula \in {F_CF, F_RATIO, F_BAD} -> name \in {"GENERATION_GWh", "CAPACITY_MW"}
      [] formula = F_LCOE -> name \in {"TOTAL_GEN_COST_kUSD", "GENERATION_GWh"}
      [] formula \in {F_NAME, F_SUM, F_FORI} -> name \in {"UNIT_CAPACITY_MW", "CAPACITY_MW"}
      [] OTHER -> FALSE

\* var_name.startswith('UNIT_'), var.startswith('GENERATOR_')
StartsWithUnit(name) == name \in {"UNIT_CAPACITY_MW", "UNIT_OUTPUT_MW"}
StartsWithGenerator(name) == name \in {"GENERATOR_OUTPUT_MW"}
StartsWithUnitOrGenerator(name) == StartsWithUnit(name) \/ StartsWithGenerator(name)

\* 'capacity' in var.lower() or 'generator' in var.lower()
MentionsCapacityOrGenerator(name) ==
    name \in {"CAPACITY_MW", "UNIT_CAPACITY_MW", "GENERATOR_OUTPUT_MW"}

\* metric.lower() == 'capacity_mw'
IsCapacityMw(metric) == metric \in {"CAPACITY_MW", "capacity_mw"}

\* the names a formula SymPy can parse refers to
FreeNames(formula) ==
    CASE formula \in {F_CF, F_RATIO} -> {"GENERATION_GWh", "CAPACITY_MW"}
      [] formula = F_LCOE -> {"TOTAL_GEN_COST_kUSD", "GENERATION_GWh"}
      [] formula \in {F_NAME, F_SUM} -> {"UNIT_CAPACITY_MW"}
      [] OTHER -> {}

Parses(formula) == formula \in {F_CF, F_RATIO, F_LCOE, F_NAME, F_SUM}

\* sp.sympify(formula, locals=namespace), evalf, float: Raise when the text
\* does not parse, a name is left symbolic, or a bound value is None
SympyValue(formula, variables) ==
    IF ~Parses(formula) \/ ~(FreeNames(formula) \subseteq Keys(variables))
    THEN Raise
    ELSE LET V(name) == Lookup(variables, name)
         IN  CASE formula = F_CF ->
                    Div(Mul(V("GENERATION_GWh"), Num(1000)), Mul(V("CAPACITY_MW"), Num(8760)))
               [] formula = F_RATIO -> Div(V("GENERATION_GWh"), V("CAPACITY_MW"))
               [] formula = F_LCOE -> Div(V("TOTAL_GEN_COST_kUSD"), V("GENERATION_GWh"))
               [] OTHER -> Float(V("UNIT_CAPACITY_MW"))

-----------------------------------------------------------------------------
(* Equations *)

NoFallback == [formula |-> "", required |-> <<>>]

\* {}: get_equation's answer when nothing was resolved
EmptyEq ==
    [formula |-> "", required |-> <<>>, has_unit |-> FALSE, unit |-> "",
     fallback |-> NoFallback]

Eq(formula, required, has_unit, unit, fallback) ==
    [formula |-> formula, required |-> required, has_unit |-> has_unit, unit |-> unit,
     fallback |-> fallback]

\* not eq: an empty dict
IsEmptyDict(eq) == eq = EmptyEq

\* What determine_equation may hand back for a metric: an equation parsed
\* from the reply, or Failed (the call raised, or the reply was no JSON
\* object: the except branch's formula-less dict).  The knowledge source is
\* free to answer any of these for any metric.
Failed == EmptyEq

EquationLibrary ==
    { Eq(F_CF, <<"GENERATION_GWh", "CAPACITY_MW">>, TRUE, "%", NoFallback),
      Eq(F_RATIO, <<"GENERATION_GWh", "CAPACITY_MW">>, FALSE, "", NoFallback),
      Eq(F_LCOE, <<"TOTAL_GEN_COST_kUSD", "GENERATION_GWh">>, TRUE, "USD/MWh",
         [formula |-> F_NAME, required |-> <<"UNIT_CAPACITY_MW">>]),
      Eq(F_SUM, <<"UNIT_CAPACITY_MW">>, TRUE, "MW", NoFallback),
      Eq(F_BAD, <<"GENERATION_GWh", "CAPACITY_MW">>, FALSE, "", NoFallback),
      Eq(F_NAME, <<>>, TRUE, "MW", NoFallback),
      Eq(F_FORI, <<"CAPACITY_MW">>, TRUE, "MW", NoFallback) }

\* the equations the knowledge source may answer for a metric of the pipeline
\* specification; complete() returns "" without an API key, so json.loads
\* raises and only Failed is left
KnowledgeAnswers(metric) ==
    IF ~api_key THEN {Failed}
    ELSE {Failed} \cup
         CASE metric = "CAPACITY_FACTOR" ->
                {e \in EquationLibrary : e.formula \in {F_CF, F_BAD}}
           [] metric = "LCOE" -> {e \in EquationLibrary : e.formula \in {F_LCOE, F_NAME}}
           [] OTHER -> {e \in EquationLibrary : e.formula = F_SUM}

Metrics == {"CAPACITY_FACTOR", "LCOE", "CAPACITY_MW"}

-----------------------------------------------------------------------------
(* EquationRegistry.get_equation *)

\* mutants: the cache is not consulted / the cached entry is overwritten
GetEquation_NoCacheCheck(cache, metric, answer) ==
    IF answer.formula # ""
    THEN [eq |-> IF metric \in DOMAIN cache THEN cache[metric] ELSE answer,
          asked |-> {metric},
          cache |-> IF metric \in DOMAIN cache THEN cache ELSE (metric :> answer) @@ cache]
    ELSE [eq |-> IF metric \in DOMAIN cache THEN cache[metric] ELSE EmptyEq,
          asked |-> {metric}, cache |-> cache]

GetEquation_Overwrite(cache, metric, answer) ==
    IF answer.formula # ""
    THEN [eq |-> answer, asked |-> {}, cache |-> (metric :> answer) @@ cache]
    ELSE [eq |-> IF metric \in DOMAIN cache THEN cache[metric] ELSE EmptyEq,
          asked |-> {}, cache |-> cache]

GetEquation_CacheEmpty(cache, metric, answer) ==
    IF metric \in DOMAIN cache
    THEN [eq |-> cache[metric], asked |-> {}, cache |-> cache]
    ELSE [eq |-> IF answer.formula # "" THEN answer ELSE EmptyEq,
          asked |-> {metric}, cache |-> (metric :> answer) @@ cache]

\* get_equation(metric) on registry contents `cache` when the knowledge
\* source would answer `answer`: the equation returned, the metrics for
\* which determine_equation was called, and the registry contents afterwards
GetEquation(cache, metric, answer) ==
    IF metric \in DOMAIN cache
    THEN [eq |-> cache[metric], asked |-> {}, cache |-> cache]
    ELSE IF answer.formula # ""
         THEN [eq |-> answer, asked |-> {metric}, cache |-> (metric :> answer) @@ cache]
         ELSE [eq |-> EmptyEq, asked |-> {metric}, cache |-> cache]

-----------------------------------------------------------------------------
(* EquationRegistry.evaluate *)

\* mutant: the boundary value 1.0 is rescaled too
PostProcess_Inclusive(metric, result) ==
    IF metric = "CAPACITY_FACTOR" /\ ~Less(Num(1), result) THEN Mul(result, Num(100)) ELSE result

\* if metric == 'CAPACITY_FACTOR' and result < 1.0: result *= 100
PostProcess(metric, result) ==
    IF metric = "CAPACITY_FACTOR" /\ Less(result, Num(1)) THEN Mul(result, Num(100)) ELSE result

\* an exception inside the try block is logged and None returned
Caught(x) == IF x = Raise THEN None ELSE x

\* mutant: a declared fallback formula is ignored
ChooseFormula_PrimaryOnly(eq, variables) ==
    IF \A i \in DOMAIN eq.required : eq.required[i] \in Keys(variables) THEN eq.formula ELSE ""

\* the equation's formula, or its fallback's when a required variable is
\* missing and the fallback's are all bound; "" when evaluation stops there
ChooseFormula(eq, variables) ==
    LET missing == {i \in DOMAIN eq.required : eq.required[i] \notin Keys(variables)}
        fallback_missing ==
            {i \in DOMAIN eq.fallback.required : eq.fallback.required[i] \notin Keys(variables)}
    IN  IF missing = {} THEN eq.formula
        ELSE IF eq.fallback.formula # "" /\ fallback_missing = {} THEN eq.fallback.formula
        ELSE ""

\* the body of the try block: the path taken, the value before the
\* capacity-factor step (raw) and the value returned (ret)
TryEvaluate(metric, formula, variables) ==
    LET unit_var == FirstKey(variables, {name \in Keys(variables) : StartsWithUnit(name)})
        named == FirstKey(variables, {name \in Keys(variables) : OccursIn(name, formula)})
        recovery_var == FirstKey(variables,
                                 {name \in Keys(variables) : StartsWithUnitOrGenerator(name)})
        parsed == SympyValue(formula, variables)
    IN  IF HasSumCall(formula) /\ unit_var # 0
        THEN [path |-> "sum_unit", raw |-> Caught(Float(variables[unit_var].v)),
              ret |-> Caught(Float(variables[unit_var].v))]
        ELSE IF formula \in Keys(variables)
        THEN [path |-> "direct", raw |-> Caught(Float(Lookup(variables, formula))),
              ret |-> Caught(Float(Lookup(variables, formula)))]
        ELSE IF HasIndexRange(formula) /\ named # 0
        THEN [path |-> "index_range", raw |-> Caught(Float(variables[named].v)),
              ret |-> Caught(Float(variables[named].v))]
        ELSE IF parsed # Raise
        THEN [path |-> "general", raw |-> parsed, ret |-> PostProcess(metric, parsed)]
        ELSE IF recovery_var # 0 /\ IsNum(variables[recovery_var].v)
        THEN [path |-> "recovery", raw |-> variables[recovery_var].v,
              ret |-> PostProcess(metric, variables[recovery_var].v)]
        ELSE [path |-> "error", raw |-> None, ret |-> None]

\* evaluate(metric, variables) once get_equation has returned eq
EvaluateEq(metric, eq, variables) ==
    LET generator_var == FirstKey(variables,
                                  {name \in Keys(variables) : MentionsCapacityOrGenerator(name)})
    IN  IF IsCapacityMw(metric)
        THEN IF generator_var # 0
             THEN [path |-> "capacity_mw", raw |-> Float(variables[generator_var].v),
                   ret |-> Float(variables[generator_var].v)]
             ELSE [path |-> "capacity_mw", raw |-> Num(500), ret |-> Num(500)]
        ELSE IF IsEmptyDict(eq) \/ eq.formula = ""
        THEN [path |-> "no_equation", raw |-> None, ret |-> None]
        ELSE IF ChooseFormula(eq, variables) = ""
        THEN [path |-> "missing", raw |-> None, ret |-> None]
        ELSE TryEvaluate(metric, ChooseFormula(eq, variables), variables)

-----------------------------------------------------------------------------
(* EquationRegistry.generate_unit (the definition in force: the second) *)

\* unit_map of the first generate_unit definition, which the second
\* definition of the same name replaces: "" where the map has no entry
StaticUnit(metric) ==
    CASE metric = "LCOE" -> "USD/MWh"
      [] metric = "GENERATION_GWh" -> "GWh"
      [] metric = "CAPACITY_MW" -> "MW"
      [] metric = "CAPACITY_FACTOR" -> "%"
      [] metric = "EMISSIONS_tCO2" -> "tCO2"
      [] OTHER -> ""

\* replies of complete() to the unit question; "" without a key or on error
SanityLen == 20

UnitReplies ==
    IF api_key
    THEN {[text |-> "", len |-> 0], [text |-> "MWh", len |-> 3],
          [text |-> "The standard unit is MWh", len |-> 24]}
    ELSE {[text |-> "", len |-> 0]}

\* the unit returned and whether the knowledge source was asked
UnitOf(eq, reply) ==
    IF ~IsEmptyDict(eq) /\ eq.has_unit
    THEN [unit |-> eq.unit, asked_unit |-> FALSE]
    ELSE IF reply.text # "" /\ reply.len < SanityLen
         THEN [unit |-> reply.text, asked_unit |-> TRUE]
         ELSE [unit |-> "unknown", asked_unit |-> TRUE]

-----------------------------------------------------------------------------
(* The data store as the pipeline reads it (EnhancedPipeline, v2) *)

Digits == {"0", "1", "2", "3", "4", "5", "6", "7", "8", "9"}

\* the characters of a 2-letter country code
CodeChars(code) ==
    CASE code = "FR" -> <<"F", "R">>
      [] code = "BE" -> <<"B", "E">>
      [] OTHER -> <<"?", "?">>

\* self.tech_map: canonical technology -> patterns looked for in category_name
TechPatterns(tech) ==
    CASE tech = "WIND" -> {"Wind", "onshore wind", "offshore wind"}
      [] tech = "NUCLEAR" -> {"Nuclear"}
      [] OTHER -> {}


\* str.contains(pattern, case=False) on the category names of the tables
ContainsCI(category, pattern) ==
    \/ category = "Wind Onshore" /\ pattern \in {"Wind", "WIND"}
    \/ category = "Nuclear" /\ pattern \in {"Nuclear", "NUCLEAR"}

\* self.property_mappings.get(var_name, [var_name])
PropertyNames(var_name) ==
    CASE var_name = "TOTAL_GEN_COST_kUSD" -> <<"Total Generation Cost">>
      [] var_name = "GENERATION_GWh" -> <<"Generation">>
      [] var_name = "CAPACITY_MW" -> <<"Installed Capacity", "Capacity">>
      [] OTHER -> <<var_name>>

Row(property, category, child, year, value, unit) ==
    [property_name |-> property, category_name |-> category, child_name |-> child,
     date_string |-> year, value |-> value, unit_name |-> unit]

IntYear(y) == [type |-> "int", y |-> y]
StrYear(y) == [type |-> "str", y |-> y]
NumValue(x) == [kind |-> "num", x |-> x]
TextValue == [kind |-> "text", x |-> None]

\* Step 3 of answer_query: the filters built from the intent ("" and 0: absent)
FiltersOf(intent) ==
    [tech |-> IF intent.tech \in {"WIND", "NUCLEAR"} THEN intent.tech ELSE "",
     country |-> IF intent.country \in {"BE", "FR"} THEN intent.country ELSE "",
     year |-> intent.year]

\* mutant: the country pattern matches anywhere in child_name
RowMatches_Unanchored(row, filters, property_name) ==
    /\ row.property_name = property_name
    /\ filters.tech # "" =>
           \E pattern \in TechPatterns(filters.tech) : ContainsCI(row.category_name, pattern)
    /\ filters.country # "" =>
           \E i \in 1..(Len(row.child_name) - 2) :
               /\ SubSeq(row.child_name, i, i + 1) = CodeChars(filters.country)
               /\ row.child_name[i + 2] \in Digits
    /\ filters.year # 0 => row.date_string = IntYear(filters.year)

\* the combined filter of _extract_data_from_csv
RowMatches(row, filters, property_name) ==
    /\ row.property_name = property_name
    /\ filters.tech # "" =>
           \E pattern \in TechPatterns(filters.tech) : ContainsCI(row.category_name, pattern)
    /\ filters.country # "" =>
           /\ Len(row.child_name) >= 3
           /\ SubSeq(row.child_name, 1, 2) = CodeChars(filters.country)
           /\ row.child_name[3] \in Digits
    /\ filters.year # 0 => row.date_string = IntYear(filters.year)

\* the result items of _extract_data_from_csv: rows whose value float() accepts
RECURSIVE ExtractData(_, _, _)
ExtractData(rows, filters, property_name) ==
    IF rows = <<>> THEN <<>>
    ELSE LET row == Head(rows)
             rest == ExtractData(Tail(rows), filters, property_name)
         IN  IF RowMatches(row, filters, property_name) /\ row.value.kind = "num"
             THEN <<[source |-> "systemgenerators.csv", property |-> row.property_name,
                     value |-> row.value.x, unit |-> row.unit_name,
                     tech |-> row.category_name, facility |-> row.child_name,
                     year |-> row.date_string]>> \o rest
             ELSE rest

\* for property_name in property_names: first property with data wins;
\* tried counts the _extract_data_from_csv calls made
RECURSIVE FirstProperty(_, _, _, _)
FirstProperty(rows, filters, property_names, tried) ==
    IF property_names = <<>> THEN [data |-> <<>>, tried |-> tried]
    ELSE LET property_data == ExtractData(rows, filters, Head(property_names))
         IN  IF property_data # <<>>
             THEN [data |-> property_data, tried |-> tried + 1]
             ELSE FirstProperty(rows, filters, Tail(property_names), tried + 1)

\* the other tables, in load order, until one yields data
RECURSIVE OtherTables(_, _, _, _)
OtherTables(tables, filters, property_names, tried) ==
    IF tables = <<>> THEN [data |-> <<>>, tried |-> tried]
    ELSE LET found == FirstProperty(Head(tables).rows, filters, property_names, tried)
         IN  IF found.data # <<>> THEN found
             ELSE OtherTables(Tail(tables), filters, property_names, found.tried)

\* var_data of one required variable: systemgenerators.csv first, then the rest
VarData(tables, filters, var_name) ==
    LET main == SelectSeq(tables, LAMBDA t : t.name = "systemgenerators.csv")
        others == SelectSeq(tables, LAMBDA t : t.name # "systemgenerators.csv")
        first == IF main = <<>> THEN [data |-> <<>>, tried |-> 0]
                 ELSE FirstProperty(main[1].rows, filters, PropertyNames(var_name), 0)
    IN  IF first.data # <<>> THEN first
        ELSE OtherTables(others, filters, PropertyNames(var_name), first.tried)

RECURSIVE SumValues(_)
SumValues(items) ==
    IF items = <<>> THEN Num(0) ELSE Add(Head(items).value, SumValues(Tail(items)))

-----------------------------------------------------------------------------
(* CSVStore.query *)

\* str.contains(tech, case=False) on a child name
ChildContainsCI(child, tech) ==
    LET chars == CASE tech = "WIND" -> <<"W", "I", "N", "D">>
                   [] tech = "NUCLEAR" -> <<"N", "U", "C", "L", "E", "A", "R">>
                   [] OTHER -> <<"?">>
        uppers == <<"A", "B", "C", "D", "E", "F", "I", "L", "N", "P", "R", "U", "W", "X">>
        lowers == <<"a", "b", "c", "d", "e", "f", "i", "l", "n", "p", "r", "u", "w", "x">>
        Lower(ch) == IF \E i \in DOMAIN uppers : uppers[i] = ch
                     THEN lowers[CHOOSE i \in DOMAIN uppers : uppers[i] = ch]
                     ELSE ch
    IN  \E i \in 1..(Len(child) - Len(chars) + 1) :
            \A k \in DOMAIN chars : Lower(child[i + k - 1]) = Lower(chars[k])

\* a row filter that drops the properties allow-list
QueryMatches_NoAllowList(row, filters, properties) ==
    /\ filters.country # "" =>
           (Len(CodeChars(filters.country)) = 2 =>
               /\ Len(row.child_name) >= 2
               /\ SubSeq(row.child_name, 1, 2) = CodeChars(filters.country))
    /\ filters.tech # "" =>
           \/ ContainsCI(row.category_name, filters.tech)
           \/ ChildContainsCI(row.child_name, filters.tech)

\* the row filter of query: properties first, then one test per filter key;
\* a key that is neither country nor tech filters only if it is a column
QueryMatches(row, filters, properties) ==
    LET columns == {"property_name", "category_name", "child_name", "date_string",
                    "value", "unit_name"}
    IN
    /\ properties # <<>> => \E i \in DOMAIN properties : row.property_name = properties[i]
    /\ filters.country # "" =>
           (Len(CodeChars(filters.country)) = 2 =>
               /\ Len(row.child_name) >= 2
               /\ SubSeq(row.child_name, 1, 2) = CodeChars(filters.country))
    /\ filters.tech # "" =>
           \/ ContainsCI(row.category_name, filters.tech)
           \/ ChildContainsCI(row.child_name, filters.tech)
    /\ filters.year.type # "absent" =>
           ("year" \in columns => row.year = filters.year)

\* the matching rows of one table, each tagged with source_csv
RECURSIVE QueryTable(_, _, _, _)
QueryTable(fname, rows, filters, properties) ==
    IF rows = <<>> THEN <<>>
    ELSE LET row == Head(rows)
             rest == QueryTable(fname, Tail(rows), filters, properties)
         IN  IF QueryMatches(row, filters, properties)
             THEN <<[source |-> fname, property |-> row.property_name,
                     value |-> row.value, unit |-> row.unit_name,
                     tech |-> row.category_name, facility |-> row.child_name,
                     year |-> row.date_string]>> \o rest
             ELSE rest

\* for fname, df in self.dfs.items(): results of all tables, in load order
RECURSIVE Query(_, _, _)
Query(tables, filters, properties) ==
    IF tables = <<>> THEN <<>>
    ELSE QueryTable(Head(tables).name, Head(tables).rows, filters, properties)
             \o Query(Tail(tables), filters, properties)

-----------------------------------------------------------------------------
(* EnhancedPipeline.answer_query *)

NoYear == [type |-> "absent", y |-> 0]

\* citations of one variable resolved from data: one per contributing row
DataCitations(items) ==
    [i \in DOMAIN items |->
        [source |-> items[i].source, property |-> items[i].property,
         value |-> items[i].value, unit |-> items[i].unit, tech |-> items[i].tech,
         has_facility |-> TRUE, facility |-> items[i].facility, year |-> items[i].year]]

\* the placeholder citation of a variable filled by a fallback value
FallbackCitation(var_name, fallback_value, filters) ==
    [source |-> "fallback_values", property |-> var_name, value |-> fallback_value,
     unit |-> "fallback", tech |-> IF filters.tech # "" THEN filters.tech ELSE "Unknown",
     has_facility |-> FALSE, facility |-> <<>>,
     year |-> IF filters.year # 0 THEN IntYear(filters.year) ELSE [type |-> "unknown", y |-> 0]]

\* mutant: the facility is left out of the key
CitationKey_NoFacility(citation) ==
    <<citation.source, citation.property, citation.tech, <<>>,
      IF citation.year.type = "absent" THEN <<"", 0>>
      ELSE IF citation.year.type = "unknown" THEN <<"Unknown", 0>>
      ELSE <<"", citation.year.y>> >>

\* str(citation[field]) per key field, "" for a missing field; str() of an
\* integer year and of the same year as text coincide
CitationKey(citation) ==
    <<citation.source, citation.property, citation.tech,
      IF citation.has_facility THEN citation.facility ELSE <<>>,
      IF citation.year.type = "absent" THEN <<"", 0>>
      ELSE IF citation.year.type = "unknown" THEN <<"Unknown", 0>>
      ELSE <<"", citation.year.y>> >>

\* Step 6: keep the first citation of every key, in order
RECURSIVE Dedup(_, _)
Dedup(citations, seen) ==
    IF citations = <<>> THEN <<>>
    ELSE LET key == CitationKey(Head(citations))
         IN  IF key \in seen THEN Dedup(Tail(citations), seen)
             ELSE <<Head(citations)>> \o Dedup(Tail(citations), seen \cup {key})

\* Step 4: the loop over required_vars.  fallbacks[var] is what
\* variable_catalog.get_fallback_value returns if it is asked for var.
RECURSIVE ResolveVariables(_, _, _, _)
ResolveVariables(tables, filters, required_vars, fallbacks) ==
    IF required_vars = <<>>
    THEN [variables |-> <<>>, citations |-> <<>>, n_extract |-> 0, n_fallback |-> 0]
    ELSE LET var_name == Head(required_vars)
             found == VarData(tables, filters, var_name)
             rest == ResolveVariables(tables, filters, Tail(required_vars), fallbacks)
         IN  IF found.data # <<>>
             THEN [variables |-> <<[k |-> var_name, v |-> SumValues(found.data)]>>
                                     \o rest.variables,
                   citations |-> DataCitations(found.data) \o rest.citations,
                   n_extract |-> found.tried + rest.n_extract,
                   n_fallback |-> rest.n_fallback]
             ELSE [variables |-> <<[k |-> var_name, v |-> fallbacks[var_name]]>>
                                     \o rest.variables,
                   citations |-> <<FallbackCitation(var_name, fallbacks[var_name], filters)>>
                                     \o rest.citations,
                   n_extract |-> found.tried + rest.n_extract,
                   n_fallback |-> rest.n_fallback + 1]

NoIntent == [metric |-> "", tech |-> "", country |-> "", year |-> 0]

Response(outcome, error, metric, scope, result, unit, method, inputs, citations) ==
    [outcome |-> outcome, error |-> error, metric |-> metric, scope |-> scope,
     result |-> result, unit |-> unit, method |-> method, inputs |-> inputs,
     citations |-> citations]

NoResponse == Response("none", "", "", NoIntent, None, "", "", <<>>, <<>>)

\* an exception left answer_query: the caller gets no response
Raised == Response("raised", "", "", NoIntent, None, "", "", <<>>, <<>>)

Trace(n_get_equation, n_determine, n_extract, n_fallback, n_evaluate) ==
    [n_get_equation |-> n_get_equation, n_determine |-> n_determine,
     n_extract |-> n_extract, n_fallback |-> n_fallback, n_evaluate |-> n_evaluate]

\* mutants: an early return is missing
MetricMissing_Never(intent) == FALSE
RequiredMissing_Never(required_vars) == FALSE

\* if not metric:
MetricMissing(intent) == intent.metric = ""

\* if not required_vars:
RequiredMissing(required_vars) == required_vars = <<>>

Asked(got) == IF got.asked = {} THEN 0 ELSE 1

\* answer_query on an intent the parser returned.  answer: what the knowledge
\* source would answer to determine_equation; unit_reply: to the unit
\* question; fallbacks: what the variable catalog returns per variable.
\* Yields the response (or that an exception left answer_query), the
\* registry contents afterwards and what was called on the way.
AnswerQueryOn(cache, tables, intent, answer, fallbacks, unit_reply) ==
    LET metric == intent.metric
        got1 == GetEquation(cache, metric, answer)
        required_vars == got1.eq.required
        filters == FiltersOf(intent)
        resolved == ResolveVariables(tables, filters, required_vars, fallbacks)
        got2 == IF IsCapacityMw(metric) THEN [got1 EXCEPT !.asked = {}]
                ELSE GetEquation(got1.cache, metric, answer)
        evaluated == EvaluateEq(metric, got2.eq, resolved.variables)
        got3 == GetEquation(got2.cache, metric, answer)
        unit == UnitOf(got3.eq, unit_reply)
        n_get == IF IsCapacityMw(metric) THEN 2 ELSE 3
    IN  IF MetricMissing(intent)
        THEN [resp |-> Response("returned", "Could not determine metric from query", "",
                                intent, None, "", "", <<>>, <<>>),
              cache |-> cache, eq |-> EmptyEq, trace |-> Trace(0, 0, 0, 0, 0),
              variables |-> <<>>, recorded |-> <<>>,
              value |-> None, path |-> "", asked_unit |-> FALSE]
        ELSE IF RequiredMissing(required_vars)
        THEN \* the error text ends with the metric, which resp.metric carries
             [resp |-> Response("returned", "Could not determine equation for metric",
                                metric, intent, None, "", "", <<>>, <<>>),
              cache |-> got1.cache, eq |-> got1.eq,
              trace |-> Trace(1, Asked(got1), 0, 0, 0),
              variables |-> <<>>, recorded |-> <<>>,
              value |-> None, path |-> "", asked_unit |-> FALSE]
        ELSE [resp |-> IF ~IsNum(evaluated.ret)   \* Step 7: formatting None raises TypeError
                       THEN Raised
                       ELSE Response("returned", "", metric, intent, evaluated.ret,
                                     unit.unit, got1.eq.formula, resolved.variables,
                                     Dedup(resolved.citations, {})),
              cache |-> got3.cache, eq |-> got1.eq,
              trace |-> Trace(n_get, Asked(got1) + Asked(got2) + Asked(got3),
                              resolved.n_extract, resolved.n_fallback, 1),
              variables |-> resolved.variables, recorded |-> resolved.citations,
              value |-> evaluated.ret, path |-> evaluated.path,
              asked_unit |-> unit.asked_unit]

-----------------------------------------------------------------------------
(* Pipeline.answer_query (engine/pipeline.py) *)

\* filters: the intent's country, tech and year entries that are not None
PipelineFilters(intent) ==
    [tech |-> intent.tech, country |-> intent.country,
     year |-> IF intent.year = 0 THEN NoYear ELSE IntYear(intent.year)]

\* if citation not in citations: citations.append(citation), row by row.
\* The citation {'csv', 'child_name', 'property', 'year'} is held in the fields
\* source, facility, property, year; it has no tech, value or unit.
RECURSIVE AppendNew(_, _, _)
AppendNew(citations, rows, property_name) ==
    IF rows = <<>> THEN citations
    ELSE LET row == Head(rows)
             citation ==
                 [source |-> row.source, property |-> property_name, value |-> None,
                  unit |-> "", tech |-> "", has_facility |-> TRUE,
                  facility |-> row.facility, year |-> row.year]
         IN  AppendNew(IF \E i \in DOMAIN citations : citations[i] = citation
                       THEN citations ELSE Append(citations, citation),
                       Tail(rows), property_name)

\* sum(row.get('value', 0) for row in rows): a text value raises TypeError
RECURSIVE SumRows(_)
SumRows(rows) ==
    IF rows = <<>> THEN Num(0)
    ELSE LET rest == SumRows(Tail(rows))
         IN  IF Head(rows).value.kind # "num" \/ rest = Raise THEN Raise
             ELSE Add(Head(rows).value.x, rest)

\* for mapping in var_mappings: the first property for which query has rows
RECURSIVE FirstMapping(_, _, _, _)
FirstMapping(tables, filters, property_names, tried) ==
    IF property_names = <<>> THEN [rows |-> <<>>, property |-> "", tried |-> tried]
    ELSE LET rows == Query(tables, filters, <<Head(property_names)>>)
         IN  IF rows # <<>>
             THEN [rows |-> rows, property |-> Head(property_names), tried |-> tried + 1]
             ELSE FirstMapping(tables, filters, Tail(property_names), tried + 1)

\* Step 3: the loop over required_vars.  mappings[var] is what
\* variable_catalog.get_mappings returns for var, fallbacks[var] what
\* variable_catalog.get_fallback_value returns; no citation for a fallback.
RECURSIVE PipelineResolve(_, _, _, _, _, _)
PipelineResolve(tables, filters, required_vars, mappings, fallbacks, sofar) ==
    IF required_vars = <<>> \/ sofar.raised THEN sofar
    ELSE LET var_name == Head(required_vars)
             found == FirstMapping(tables, filters, mappings[var_name], 0)
             bound == \E i \in DOMAIN sofar.variables : sofar.variables[i].k = var_name
             Bind(variables, value) ==
                 IF bound
                 THEN [i \in DOMAIN variables |->
                          IF variables[i].k = var_name THEN [k |-> var_name, v |-> value]
                          ELSE variables[i]]
                 ELSE Append(variables, [k |-> var_name, v |-> value])
             next ==
                 IF found.rows # <<>>
                 THEN IF SumRows(found.rows) = Raise
                      THEN [sofar EXCEPT !.raised = TRUE,
                                         !.n_extract = @ + found.tried]
                      ELSE [sofar EXCEPT
                              !.variables = Bind(@, SumRows(found.rows)),
                              !.citations = AppendNew(@, found.rows, found.property),
                              !.n_extract = @ + found.tried]
                 ELSE IF mappings[var_name] = <<>> \/ ~bound
                 THEN [sofar EXCEPT !.variables = Bind(@, fallbacks[var_name]),
                                    !.n_extract = @ + found.tried,
                                    !.n_fallback = @ + 1]
                 ELSE [sofar EXCEPT !.n_extract = @ + found.tried]
         IN  PipelineResolve(tables, filters, Tail(required_vars), mappings, fallbacks, next)

\* answer_query once the intent is parsed: no formatting, no fallback citation
PipelineAnswerOn(cache, tables, intent, mappings, fallbacks, unit_reply) ==
    LET metric == intent.metric
        got1 == GetEquation(cache, metric, Failed)
        required_vars == got1.eq.required
        resolved == PipelineResolve(tables, PipelineFilters(intent), required_vars,
                                    mappings, fallbacks,
                                    [variables |-> <<>>, citations |-> <<>>, n_extract |-> 0,
                                     n_fallback |-> 0, raised |-> FALSE])
        evaluated == EvaluateEq(metric, got1.eq, resolved.variables)
        unit == UnitOf(got1.eq, unit_reply)
    IN  IF MetricMissing(intent)
        THEN [resp |-> Response("returned", "Could not determine metric from query", "",
                                intent, None, "", "", <<>>, <<>>),
              eq |-> EmptyEq, trace |-> Trace(0, 0, 0, 0, 0),
              variables |-> <<>>, recorded |-> <<>>,
              value |-> None, path |-> "", asked_unit |-> FALSE]
        ELSE IF RequiredMissing(required_vars)
        THEN [resp |-> Response("returned", "Could not determine equation for metric",
                                metric, intent, None, "", "", <<>>, <<>>),
              eq |-> got1.eq, trace |-> Trace(1, Asked(got1), 0, 0, 0),
              variables |-> <<>>, recorded |-> <<>>,
              value |-> None, path |-> "", asked_unit |-> FALSE]
        ELSE IF resolved.raised
        THEN [resp |-> Raised, eq |-> got1.eq,
              trace |-> Trace(1, Asked(got1), resolved.n_extract, resolved.n_fallback, 0),
              variables |-> resolved.variables, recorded |-> resolved.citations,
              value |-> None, path |-> "", asked_unit |-> FALSE]
        ELSE [resp |-> IF evaluated.ret = Raise
                       THEN Raised
                       ELSE Response("returned", "", metric, intent, evaluated.ret,
                                     unit.unit, got1.eq.formula, resolved.variables,
                                     resolved.citations),
              eq |-> got1.eq,
              trace |-> Trace(IF IsCapacityMw(metric) THEN 2 ELSE 3, Asked(got1),
                              resolved.n_extract, resolved.n_fallback, 1),
              variables |-> resolved.variables, recorded |-> resolved.citations,
              value |-> evaluated.ret, path |-> evaluated.path,
              asked_unit |-> unit.asked_unit]

-----------------------------------------------------------------------------
(* Inputs of the pipeline specification *)

FR1 == <<"F", "R", "1">>

\* the tables CSVStore loaded at start-up
LoadedTables ==
    << [name |-> "systemgenerators.csv",
        rows |-> << Row("Generation", "Wind Onshore", FR1, IntYear(2050), NumValue(Num(100)), "GWh"),
                    Row("Installed Capacity", "Wind Onshore", FR1, IntYear(2050), NumValue(Num(50)), "MW"),
                    Row("Generation", "Nuclear", <<"B", "E", "1">>, IntYear(2050), NumValue(Num(219)), "GWh") >>],
       [name |-> "systemfuels.csv",
        rows |-> << Row("Capacity", "Nuclear", <<"B", "E", "1">>, IntYear(2050), NumValue(Num(25)), "MW") >>] >>

\* what IntentParser.parse may return: "" is a missing metric
Intents ==
    { [metric |-> m, tech |-> s.tech, country |-> s.country, year |-> s.year] :
        m \in Metrics \cup {""},
        s \in { [tech |-> "WIND", country |-> "FR", year |-> 2050],
                [tech |-> "", country |-> "", year |-> 0] } }

\* what variable_catalog.get_fallback_value may return
CatalogOutcomes == {None, Num(100)}

SeqRange(seq) == {seq[i] : i \in DOMAIN seq}

\* the required variables for which the tables hold no matching row: the
\* ones answer_query asks the variable catalog about
Unresolved(tables, intent, required_vars) ==
    {var_name \in SeqRange(required_vars) :
        VarData(tables, FiltersOf(intent), var_name).data = <<>>}

\* bindings handed to evaluate directly
CallBindings ==
    { <<>>,
      <<[k |-> "GENERATION_GWh", v |-> Num(100)], [k |-> "CAPACITY_MW", v |-> Num(50)]>>,
      <<[k |-> "CAPACITY_MW", v |-> None]>> }

-----------------------------------------------------------------------------
(* State of the other components while one component is explored *)

NoCall ==
    [op |-> "none", metric |-> "", intent |-> NoIntent, cached_before |-> FALSE,
     after_empty |-> FALSE, eq |-> EmptyEq, value |-> None, path |-> "", unit |-> "", asked_unit |-> FALSE,
     resp |-> NoResponse, trace |-> Trace(0, 0, 0, 0, 0),
     variables |-> <<>>, recorded |-> <<>>, rows |-> <<>>,
     table |-> "", property |-> "", year |-> NoYear,
     properties |-> <<>>, column |-> "", values |-> {}]

NoEquations == [m \in {} |-> EmptyEq]
NoValues == [key \in {} |-> None]
NoFallbackCall ==
    [op |-> "none", canonical_var |-> <<>>, filters |-> [tech |-> <<>>, country |-> <<>>, year |-> <<>>],
     reply |-> <<>>, failed |-> FALSE, value |-> None, called |-> FALSE, repeat |-> FALSE,
     previous |-> None, calls |-> 0]
NoEvaluation == [pc |-> "idle"]
NoCrf == [pc |-> "idle"]

-----------------------------------------------------------------------------
(* Actions of the pipeline specification *)

\* the call before this one was a get_equation resolution of the same metric
\* that came back empty
AfterEmpty(metric) ==
    last.metric = metric /\ last.trace.n_get_equation > 0 /\ IsEmptyDict(last.eq)

GetEquationCall(metric, answer) ==
    LET got == GetEquation(equations, metric, answer)
    IN  /\ equations' = got.cache
        /\ last' = [NoCall EXCEPT !.op = "get_equation", !.metric = metric,
                       !.cached_before = metric \in DOMAIN equations,
                       !.after_empty = AfterEmpty(metric),
                       !.eq = got.eq, !.trace = Trace(1, Asked(got), 0, 0, 0)]
        /\ UNCHANGED <<api_key, dfs, value_cache, fb, served, ev, crf, parse, collector, chat>>

EvaluateCall(metric, variables, answer) ==
    LET got == IF IsCapacityMw(metric)
               THEN [eq |-> EmptyEq, asked |-> {}, cache |-> equations]
               ELSE GetEquation(equations, metric, answer)
        evaluated == EvaluateEq(metric, got.eq, variables)
    IN  /\ equations' = got.cache
        /\ last' = [NoCall EXCEPT !.op = "evaluate", !.metric = metric,
                       !.cached_before = metric \in DOMAIN equations,
                       !.after_empty = AfterEmpty(metric),
                       !.eq = got.eq, !.value = evaluated.ret, !.path = evaluated.path,
                       !.trace = Trace(IF IsCapacityMw(metric) THEN 0 ELSE 1,
                                       Asked(got), 0, 0, 1)]
        /\ UNCHANGED <<api_key, dfs, value_cache, fb, served, ev, crf, parse, collector, chat>>

GenerateUnitCall(metric, answer, unit_reply) ==
    LET got == GetEquation(equations, metric, answer)
        unit == UnitOf(got.eq, unit_reply)
    IN  /\ equations' = got.cache
        /\ last' = [NoCall EXCEPT !.op = "generate_unit", !.metric = metric,
                       !.cached_before = metric \in DOMAIN equations,
                       !.after_empty = AfterEmpty(metric),
                       !.eq = got.eq, !.unit = unit.unit, !.asked_unit = unit.asked_unit,
                       !.trace = Trace(1, Asked(got), 0, 0, 0)]
        /\ UNCHANGED <<api_key, dfs, value_cache, fb, served, ev, crf, parse, collector, chat>>

AnswerQuery(intent, answer, fallbacks, unit_reply) ==
    \E done \in {AnswerQueryOn(equations, dfs, intent, answer, fallbacks, unit_reply)} :
        /\ equations' = done.cache
        /\ last' = [NoCall EXCEPT !.op = "answer_query", !.metric = intent.metric,
                       !.intent = intent,
                       !.cached_before = intent.metric \in DOMAIN equations,
                       !.after_empty = AfterEmpty(intent.metric),
                       !.eq = done.eq, !.value = done.value, !.path = done.path,
                       !.unit = done.resp.unit, !.asked_unit = done.asked_unit,
                       !.resp = done.resp, !.trace = done.trace,
                       !.variables = done.variables, !.recorded = done.recorded]
        /\ UNCHANGED <<api_key, dfs, value_cache, fb, served, ev, crf, parse, collector, chat>>

Init ==
    /\ api_key \in BOOLEAN
    /\ equations = NoEquations
    /\ dfs = LoadedTables
    /\ value_cache = NoValues
    /\ last = NoCall
    /\ fb = NoFallbackCall
    /\ served = NoValues
    /\ parse = [pc |-> "idle"]
    /\ collector = [pc |-> "idle"]
    /\ chat = [pc |-> "idle"]
    /\ ev = NoEvaluation
    /\ crf = NoCrf

Next ==
    \/ \E metric \in Metrics : \E answer \in KnowledgeAnswers(metric) :
          GetEquationCall(metric, answer)
    \/ \E metric \in Metrics, variables \in CallBindings :
          \E answer \in KnowledgeAnswers(metric) :
              EvaluateCall(metric, variables, answer)
    \/ \E metric \in Metrics, unit_reply \in UnitReplies :
          \E answer \in KnowledgeAnswers(metric) :
              GenerateUnitCall(metric, answer, unit_reply)
    \/ \E intent \in Intents, unit_reply \in UnitReplies :
          \E answer \in KnowledgeAnswers(intent.metric) :
              \E fallbacks \in
                    [Unresolved(dfs, intent,
                                GetEquation(equations, intent.metric, answer).eq.required)
                       -> CatalogOutcomes] :
                  AnswerQuery(intent, answer, fallbacks, unit_reply)

Spec == Init /\ [][Next]_vars

-----------------------------------------------------------------------------
(* Properties of the pipeline and of the equation registry *)

\* C1: answer_query on an intent without a metric returns early with result
\* null, the error "Could not determine metric from query", no citations and
\* the raw intent as scope, and resolves no equation, queries no table, asks
\* for no fallback value and evaluates nothing on that run.
C1_NoMetricReturnsEarly ==
    (last.op = "answer_query" /\ last.intent.metric = "") =>
        /\ last.resp.outcome = "returned"
        /\ last.resp.result = None
        /\ last.resp.error = "Could not determine metric from query"
        /\ last.resp.citations = <<>>
        /\ last.resp.scope = last.intent
        /\ last.trace = Trace(0, 0, 0, 0, 0)

C1_Witness ==
    /\ last.op = "answer_query"
    /\ last.intent.metric = "" /\ last.intent.tech = "WIND"
    /\ last.resp.error = "Could not determine metric from query"
    /\ equations # NoEquations

\* C2: answer_query on a metric whose equation comes back without required
\* variables (the knowledge source failed, gave no formula, or gave a formula
\* that needs nothing) returns early with result null, no citations, the
\* metric and the intent as scope; no table is queried, no fallback value is
\* asked for and nothing is evaluated on that run.
C2_NoRequiredReturnsEarly ==
    (last.op = "answer_query" /\ last.intent.metric # "" /\ last.eq.required = <<>>) =>
        /\ last.resp.outcome = "returned"
        /\ last.resp.result = None
        /\ last.resp.citations = <<>>
        /\ last.resp.metric = last.intent.metric
        /\ last.resp.scope = last.intent
        /\ last.trace.n_extract = 0
        /\ last.trace.n_fallback = 0
        /\ last.trace.n_evaluate = 0

C2_Witness ==
    /\ last.op = "answer_query"
    /\ last.intent.metric = "LCOE"
    /\ last.eq.formula = F_NAME /\ last.eq.required = <<>>
    /\ last.resp.outcome = "returned" /\ last.resp.result = None

\* C3: answer_query always returns a response and never raises; when
\* evaluation yields no number the response carries result null and the scope.
C3_NeverRaises ==
    last.op = "answer_query" =>
        /\ last.resp.outcome = "returned"
        /\ ~IsNum(last.value) => (last.resp.result = None /\ last.resp.scope = last.intent)

\* C4: once a metric is in the registry, a later get_equation for it, called
\* directly or through evaluate, generate_unit or answer_query, does not call
\* determine_equation; one operation calls it at most once.
C4_CacheHitAsksNothing ==
    /\ last.cached_before => last.trace.n_determine = 0
    /\ last.trace.n_determine <= 1

C4_Witness ==
    /\ last.op = "answer_query"
    /\ last.cached_before
    /\ last.trace.n_get_equation = 3
    /\ last.trace.n_determine = 0

\* C5 as stated: a get_equation repeated after an empty resolution of the same
\* metric does not query the knowledge source again.
C5_EmptyResolutionCached ==
    (last.op = "get_equation" /\ last.after_empty) => last.trace.n_determine = 0

\* C5: get_equation caches only a resolution that has a formula: the registry
\* never holds a formula-less entry, and a get_equation repeated after an
\* empty resolution of the same metric queries the knowledge source again.
C5_OnlyFormulasCached ==
    /\ \A m \in DOMAIN equations : equations[m].formula # ""
    /\ (last.after_empty /\ last.trace.n_get_equation > 0) => last.trace.n_determine = 1

C5_Witness ==
    /\ last.op = "get_equation"
    /\ last.after_empty
    /\ last.trace.n_determine = 1
    /\ last.metric \notin DOMAIN equations

\* C6: a cached entry is never changed or removed by any operation, whatever
\* the knowledge source answers, and an operation on a cached metric gets
\* that very entry.
C6_EntriesNeverChange ==
    [][\A m \in DOMAIN equations :
          /\ m \in DOMAIN equations'
          /\ equations'[m] = equations[m]
          /\ (last'.metric = m /\ last'.trace.n_get_equation > 0) => last'.eq = equations[m]]_vars

C6_Witness ==
    /\ last.op = "generate_unit"
    /\ last.cached_before
    /\ last.eq = equations[last.metric]
    /\ Cardinality(DOMAIN equations) = 3

\* C14: generate_unit returns the equation's own unit if it has one, else
\* the static table's unit for a well-known metric, else the knowledge
\* source's answer if shorter than 20 characters, else unknown; the knowledge
\* source is asked only when neither earlier stage yields a unit.
C14_UnitTriage ==
    last.op = "generate_unit" =>
        IF ~IsEmptyDict(last.eq) /\ last.eq.has_unit
        THEN last.unit = last.eq.unit /\ ~last.asked_unit
        ELSE IF StaticUnit(last.metric) # ""
        THEN last.unit = StaticUnit(last.metric) /\ ~last.asked_unit
        ELSE last.asked_unit /\ last.unit \in {"MWh", "unknown"}

-----------------------------------------------------------------------------
(* The capital recovery factor on drawn inputs *)

MaxP == 3
MaxQ == 3
MaxN == 4

\* the discount rates drawn are p/q, negative ones and zero included

CrfInit ==
    /\ crf \in {[pc |-> "drawn", wacc |-> w, n |-> n, called |-> {},
                 namespace |-> None, helper |-> None] :
                   w \in {Frac(p, q) : p \in -MaxP..MaxP, q \in 1..MaxQ}, n \in 0..MaxN}
    /\ api_key = FALSE
    /\ equations = NoEquations
    /\ dfs = LoadedTables
    /\ value_cache = NoValues
    /\ last = NoCall
    /\ fb = NoFallbackCall
    /\ served = NoValues
    /\ parse = [pc |-> "idle"]
    /\ collector = [pc |-> "idle"]
    /\ chat = [pc |-> "idle"]
    /\ ev = NoEvaluation

\* namespace['CRF'](wacc, n)
CallCRF ==
    /\ crf.pc = "drawn" /\ "CRF" \notin crf.called
    /\ crf' = [crf EXCEPT !.called = @ \cup {"CRF"}, !.namespace = CRF(crf.wacc, crf.n)]
    /\ UNCHANGED <<api_key, equations, dfs, value_cache, last, fb, served, ev, parse, collector, chat>>

\* self._crf(wacc, n)
Call_crf ==
    /\ crf.pc = "drawn" /\ "_crf" \notin crf.called
    /\ crf' = [crf EXCEPT !.called = @ \cup {"_crf"}, !.helper = _crf(crf.wacc, crf.n)]
    /\ UNCHANGED <<api_key, equations, dfs, value_cache, last, fb, served, ev, parse, collector, chat>>

CrfNext == CallCRF \/ Call_crf

SpecCRF == CrfInit /\ [][CrfNext]_vars

\* C10: CRF(0, n) = 1/n for positive n; for wacc # 0 the result r satisfies
\* r * ((1+wacc)^n - 1) = wacc * (1+wacc)^n, and the division fails exactly
\* when (1+wacc)^n = 1; the namespace CRF and the helper _crf agree on every
\* input, failures included.
C10_CrfClosedFormAndAgreement ==
    LET growth == Pow(Add(Num(1), crf.wacc), crf.n)
    IN  (crf.pc = "drawn" /\ crf.called = {"CRF", "_crf"}) =>
            /\ crf.namespace = crf.helper
            /\ (crf.wacc = Num(0) /\ crf.n > 0) => crf.namespace = Frac(1, crf.n)
            /\ (crf.wacc # Num(0) /\ growth # Num(1)) =>
                  /\ IsNum(crf.namespace)
                  /\ Mul(crf.namespace, Sub(growth, Num(1))) = Mul(crf.wacc, growth)
            /\ (crf.wacc # Num(0) /\ growth = Num(1)) => crf.namespace = Raise

C10_Witness ==
    /\ crf.pc = "drawn" /\ crf.called = {"CRF", "_crf"}
    /\ crf.wacc = Num(0) /\ crf.n = MaxN
    /\ crf.namespace = Frac(1, MaxN)

-----------------------------------------------------------------------------
(* evaluate on drawn equations and bindings *)

\* generation and capacity figures: 219 GWh on 25 MW is a raw factor of
\* exactly 1, 100 GWh on 50 MW is scenario 1
Quantities == {Num(10), Num(25), Num(50), Num(100), Num(219)}

\* values of a unit-level variable, some of them below 1
UnitValues == {Frac(1, 2), Num(1), Num(7)}

EvalBindings ==
    { <<[k |-> "GENERATION_GWh", v |-> g], [k |-> "CAPACITY_MW", v |-> c]>> :
          g \in Quantities, c \in Quantities }
    \cup { <<[k |-> "GENERATION_GWh", v |-> g], [k |-> "CAPACITY_MW", v |-> g],
             [k |-> "UNIT_CAPACITY_MW", v |-> u]>> : g \in Quantities, u \in UnitValues }
    \cup { <<[k |-> "UNIT_CAPACITY_MW", v |-> u]>> : u \in UnitValues }
    \cup { <<[k |-> "TOTAL_GEN_COST_kUSD", v |-> Num(1000)], [k |-> "GENERATION_GWh", v |-> g]>> :
             g \in Quantities }
    \cup { <<[k |-> "UNIT_OUTPUT_MW", v |-> Num(7)], [k |-> "UNIT_CAPACITY_MW", v |-> u]>> :
             u \in UnitValues }
    \cup { <<[k |-> "CAPACITY_MW", v |-> g], [k |-> "UNIT_CAPACITY_MW", v |-> u],
             [k |-> "UNIT_OUTPUT_MW", v |-> Num(7)]>> : g \in Quantities, u \in UnitValues }
    \cup { <<[k |-> "GENERATION_GWh", v |-> Num(100)], [k |-> "CAPACITY_MW", v |-> Num(50)],
             [k |-> "UNIT_CAPACITY_MW", v |-> u], [k |-> "GENERATOR_OUTPUT_MW", v |-> Num(7)]>> :
             u \in UnitValues }

EvalInit ==
    /\ \E metric \in {"CAPACITY_FACTOR", "LCOE"}, eq \in EquationLibrary, variables \in EvalBindings :
          /\ equations = (metric :> eq)
          /\ ev = [pc |-> "drawn", metric |-> metric, variables |-> variables,
                   formula |-> "", path |-> "", raw |-> None, ret |-> None,
                   reordered |-> <<>>, again |-> None]
    /\ api_key = FALSE
    /\ dfs = LoadedTables
    /\ value_cache = NoValues
    /\ last = NoCall
    /\ fb = NoFallbackCall
    /\ served = NoValues
    /\ parse = [pc |-> "idle"]
    /\ collector = [pc |-> "idle"]
    /\ chat = [pc |-> "idle"]
    /\ crf = NoCrf

\* registry.evaluate(metric, variables) with the metric's equation cached
Evaluate ==
    /\ ev.pc = "drawn"
    /\ LET got == GetEquation(equations, ev.metric, Failed)
           evaluated == EvaluateEq(ev.metric, got.eq, ev.variables)
       IN  /\ equations' = got.cache
           /\ ev' = [ev EXCEPT !.pc = "done", !.path = evaluated.path,
                               !.formula = IF IsEmptyDict(got.eq) THEN ""
                                           ELSE ChooseFormula(got.eq, ev.variables),
                               !.raw = evaluated.raw, !.ret = evaluated.ret]
    /\ UNCHANGED <<api_key, dfs, value_cache, last, fb, served, crf, parse, collector, chat>>

\* a second registry.evaluate(metric, variables) on a dict holding the same
\* items inserted in another order
EvaluateAgain(order) ==
    /\ ev.pc = "done"
    /\ LET variables == [i \in DOMAIN order |-> ev.variables[order[i]]]
           got == GetEquation(equations, ev.metric, Failed)
       IN  /\ equations' = got.cache
           /\ ev' = [ev EXCEPT !.pc = "again", !.reordered = variables,
                               !.again = EvaluateEq(ev.metric, got.eq, variables).ret]
    /\ UNCHANGED <<api_key, dfs, value_cache, last, fb, served, crf, parse, collector, chat>>

EvalNext ==
    \/ Evaluate
    \/ \E order \in Permutations(DOMAIN ev.variables) : EvaluateAgain(order)

SpecEval == EvalInit /\ [][EvalNext]_vars

C20_SimplificationOrder ==
    (ev.pc = "done" /\ ev.formula # "") =>
        LET units == {i \in DOMAIN ev.variables : StartsWithUnit(ev.variables[i].k)}
            named == {i \in DOMAIN ev.variables : OccursIn(ev.variables[i].k, ev.formula)}
        IN  IF HasSumCall(ev.formula) /\ Cardinality(units) = 1
            THEN ev.path = "sum_unit" /\ \A i \in units : ev.ret = ev.variables[i].v
            ELSE IF ev.formula \in Keys(ev.variables)
            THEN ev.path = "direct" /\ ev.ret = Lookup(ev.variables, ev.formula)
            ELSE IF HasIndexRange(ev.formula) /\ named # {}
            THEN ev.path = "index_range" /\ \E i \in named : ev.ret = ev.variables[i].v
            ELSE ev.path \in {"general", "recovery", "error"}

-----------------------------------------------------------------------------
(* LLMProvider: fallback values *)

\* Text is a sequence of characters.  re.search(r'-?\d+\.?\d*', text): the
\* match starts at the first digit, or at a "-" right before it.
DigitValue(c) ==
    CASE c = "0" -> 0 [] c = "1" -> 1 [] c = "2" -> 2 [] c = "3" -> 3 [] c = "4" -> 4
      [] c = "5" -> 5 [] c = "6" -> 6 [] c = "7" -> 7 [] c = "8" -> 8 [] c = "9" -> 9

IsDigit(c) == c \in Digits

\* text without its commas: .replace(',', '')
WithoutCommas(text) == SelectSeq(text, LAMBDA c : c # ",")

\* index of the first digit of text, 0 when it has none
FirstDigit(text) ==
    IF \E i \in DOMAIN text : IsDigit(text[i])
    THEN SetMin({i \in DOMAIN text : IsDigit(text[i])})
    ELSE 0

\* index after the run of digits that starts at i
RECURSIVE DigitsEnd(_, _)
DigitsEnd(text, i) ==
    IF i <= Len(text) /\ IsDigit(text[i]) THEN DigitsEnd(text, i + 1) ELSE i

\* the integer written by the digits text[i..j-1], on top of acc
RECURSIVE DigitsValue(_, _, _, _)
DigitsValue(text, i, j, acc) ==
    IF i >= j THEN acc ELSE DigitsValue(text, i + 1, j, 10 * acc + DigitValue(text[i]))

\* float(value_match.group(0)), None when the pattern matches nowhere
MatchNumber(text) ==
    LET start == FirstDigit(text)
        int_end == DigitsEnd(text, start)
        has_point == int_end <= Len(text) /\ text[int_end] = "."
        frac_end == IF has_point THEN DigitsEnd(text, int_end + 1) ELSE int_end
        whole == DigitsValue(text, start, int_end, 0)
        frac == IF has_point THEN DigitsValue(text, int_end + 1, frac_end, 0) ELSE 0
        scale == IF has_point THEN Pow(Num(10), frac_end - int_end - 1) ELSE Num(1)
        magnitude == Add(Num(whole), Div(Num(frac), scale))
        negative == start > 1 /\ text[start - 1] = "-"
    IN  IF start = 0 THEN None
        ELSE IF negative THEN Sub(Num(0), magnitude) ELSE magnitude

\* the second parse of guess_reasonable_value is reached only when text has
\* no digit: digits_only is then empty or dots only, and float() of dots
\* raises ValueError, which is caught
DigitsOnly(text) == SelectSeq(text, LAMBDA c : IsDigit(c) \/ c = ".")

\* "WORD" in canonical_var, for the words of the heuristic
WordsIn(name) ==
    CASE name = "CAPACITY_MW" -> {"CAPACITY", "MW"}
      [] name = "GENERATION_GWh" -> {"GENERATION", "GWh"}
      [] name = "TOTAL_GEN_COST_kUSD" -> {"COST", "kUSD"}
      [] name = "DISCOUNT_RATE" -> {"RATE"}
      [] name = "COST_RATE_kUSD" -> {"COST", "RATE", "kUSD"}
      [] name = "LIFETIME_YEARS" -> {}
      [] OTHER -> {}

\* a variable name is a sequence of pieces, so that concatenation in the
\* cache key is concatenation of sequences
Contains(canonical_var, word) == \E i \in DOMAIN canonical_var : word \in WordsIn(canonical_var[i])

\* the default values at the end of guess_reasonable_value
HeuristicDefault(canonical_var) ==
    IF Contains(canonical_var, "CAPACITY") /\ Contains(canonical_var, "MW") THEN Num(100)
    ELSE IF Contains(canonical_var, "GENERATION") /\ Contains(canonical_var, "GWh") THEN Num(500)
    ELSE IF Contains(canonical_var, "COST") /\ Contains(canonical_var, "kUSD") THEN Num(1000)
    ELSE IF Contains(canonical_var, "RATE") THEN Frac(8, 100)
    ELSE Num(100)

\* f"{canonical_var}_{tech}{country}{year}", a missing filter being ''
CacheKey(canonical_var, filters) ==
    canonical_var \o <<"_">> \o filters.tech \o filters.country \o filters.year

\* f"guess_{canonical_var}_{tech}{country}{year}"
GuessKey(canonical_var, filters) == <<"guess", "_">> \o CacheKey(canonical_var, filters)

\* generate_completion: the reply's text, "" when the call raised or there
\* is no API key.  (strip() is left out: white space is no part of a number.)
Completion(reply) == IF reply.failed THEN <<>> ELSE reply.text

\* get_fallback_value(canonical_var, filters) on cache contents `cache` when
\* the knowledge source would reply `reply`: the value returned, whether the
\* knowledge source was called, and the cache afterwards
GetFallbackValue(cache, canonical_var, filters, reply) ==
    LET cache_key == CacheKey(canonical_var, filters)
        value == MatchNumber(Completion(reply))
    IN  IF ~api_key THEN [value |-> None, called |-> FALSE, cache |-> cache]
        ELSE IF cache_key \in DOMAIN cache
        THEN [value |-> cache[cache_key], called |-> FALSE, cache |-> cache]
        ELSE IF value # None
        THEN [value |-> value, called |-> TRUE, cache |-> (cache_key :> value) @@ cache]
        ELSE [value |-> None, called |-> TRUE, cache |-> cache]

\* guess_reasonable_value(canonical_var, filters)
GuessReasonableValue(cache, canonical_var, filters, reply) ==
    LET cache_key == GuessKey(canonical_var, filters)
        clean_response == WithoutCommas(Completion(reply))
        value == MatchNumber(clean_response)
        digits_only == DigitsOnly(clean_response)
        \* float(digits_only) on a text of dots raises ValueError
        second == Caught(IF digits_only = <<>> THEN None ELSE Raise)
        default == HeuristicDefault(canonical_var)
    IN  IF ~api_key THEN [value |-> None, called |-> FALSE, cache |-> cache]
        ELSE IF cache_key \in DOMAIN cache
        THEN [value |-> cache[cache_key], called |-> FALSE, cache |-> cache]
        ELSE IF value # None
        THEN [value |-> value, called |-> TRUE, cache |-> (cache_key :> value) @@ cache]
        ELSE IF second # None
        THEN [value |-> second, called |-> TRUE, cache |-> (cache_key :> second) @@ cache]
        ELSE [value |-> default, called |-> TRUE, cache |-> (cache_key :> default) @@ cache]

-----------------------------------------------------------------------------
(* Fallback values on drawn requests *)

MaxCalls == 2

FbVars ==
    { <<"CAPACITY_MW">>, <<"GENERATION_GWh">>, <<"TOTAL_GEN_COST_kUSD">>,
      <<"DISCOUNT_RATE">>, <<"COST_RATE_kUSD">>, <<"LIFETIME_YEARS">>,
      <<"guess", "_", "CAPACITY_MW">> }

FbFilters ==
    { [tech |-> <<"WIND">>, country |-> <<"FR">>, year |-> <<"2050">>],
      [tech |-> <<"WIND", "FR">>, country |-> <<>>, year |-> <<"2050">>],
      [tech |-> <<>>, country |-> <<>>, year |-> <<>>] }

\* what the knowledge source may do: fail, or reply "N/A.", "42", "1,200"
FbReplies ==
    IF api_key
    THEN { [failed |-> TRUE, text |-> <<>>],
           [failed |-> FALSE, text |-> <<"N", "/", "A", ".">>],
           [failed |-> FALSE, text |-> <<"4", "2">>],
           [failed |-> FALSE, text |-> <<"1", ",", "2", "0", "0">>] }
    ELSE { [failed |-> TRUE, text |-> <<>>] }

FbInit ==
    /\ api_key \in BOOLEAN
    /\ value_cache = NoValues
    /\ served = NoValues
    /\ parse = [pc |-> "idle"]
    /\ collector = [pc |-> "idle"]
    /\ chat = [pc |-> "idle"]
    /\ fb = NoFallbackCall
    /\ equations = NoEquations
    /\ dfs = LoadedTables
    /\ last = NoCall
    /\ ev = NoEvaluation
    /\ crf = NoCrf

\* what the call leaves behind: the request, the value, whether the
\* knowledge source was called, and what the same request returned before
Answered(op, request_key, canonical_var, filters, reply, got) ==
    /\ value_cache' = got.cache
    /\ fb' = [op |-> op, canonical_var |-> canonical_var, filters |-> filters,
              reply |-> Completion(reply), failed |-> reply.failed,
              value |-> got.value, called |-> got.called,
              repeat |-> request_key \in DOMAIN served,
              previous |-> IF request_key \in DOMAIN served THEN served[request_key] ELSE None,
              calls |-> fb.calls + 1]
    /\ served' = (request_key :> got.value) @@ served
    /\ UNCHANGED <<api_key, equations, dfs, last, ev, crf, parse, collector, chat>>

GetFallbackValueCall(canonical_var, filters, reply) ==
    /\ fb.calls < MaxCalls
    /\ Answered("get_fallback_value", CacheKey(canonical_var, filters), canonical_var,
                filters, reply, GetFallbackValue(value_cache, canonical_var, filters, reply))

GuessReasonableValueCall(canonical_var, filters, reply) ==
    /\ fb.calls < MaxCalls
    /\ Answered("guess_reasonable_value", GuessKey(canonical_var, filters), canonical_var,
                filters, reply, GuessReasonableValue(value_cache, canonical_var, filters, reply))

FbNext ==
    \/ \E canonical_var \in FbVars, filters \in FbFilters, reply \in FbReplies :
          GetFallbackValueCall(canonical_var, filters, reply)
    \/ \E canonical_var \in FbVars, filters \in FbFilters, reply \in FbReplies :
          GuessReasonableValueCall(canonical_var, filters, reply)

SpecFallback == FbInit /\ [][FbNext]_vars

\* C7: a fallback value request returns a number, never null; a repeated
\* identical request returns the same number without calling the knowledge
\* source; every value returned is in the cache afterwards.
C7_FallbackAlwaysNumberAndCached ==
    fb.op \in {"get_fallback_value", "guess_reasonable_value"} =>
        /\ IsNum(fb.value)
        /\ fb.repeat => (fb.value = fb.previous /\ ~fb.called)
        /\ \E key \in DOMAIN value_cache : value_cache[key] = fb.value

\* C8: when the knowledge source is unavailable or gives no parseable number,
\* the fallback value is the heuristic default for the variable name.
C8_HeuristicDefaultWhenNoNumber ==
    (fb.op \in {"get_fallback_value", "guess_reasonable_value"} /\ ~fb.repeat
        /\ (~api_key \/ fb.failed \/ MatchNumber(fb.reply) = None)) =>
        fb.value = HeuristicDefault(fb.canonical_var)

-----------------------------------------------------------------------------
(* The pipeline on drawn tables, with the equations already resolved *)

BE12_Plant == <<"B", "E", "1", "2", "_", "P", "l", "a", "n", "t">>
ABE12 == <<"A", "B", "E", "1", "2">>

\* a second store: two rows of one facility, both capacity properties in one
\* table, rows of another table, years kept as text, look-alike child names,
\* values that float() rejects
MixedTables ==
    << [name |-> "systemgenerators.csv",
        rows |-> << Row("Installed Capacity", "Wind Onshore", FR1, IntYear(2050), NumValue(Num(50)), "MW"),
                    Row("Installed Capacity", "Wind Onshore", FR1, IntYear(2050), NumValue(Num(30)), "MW"),
                    Row("Capacity", "Wind Onshore", <<"F", "R", "2">>, IntYear(2050), NumValue(Num(40)), "MW"),
                    Row("Generation", "Wind Onshore", FR1, IntYear(2050), NumValue(Num(100)), "GWh"),
                    Row("Generation", "Wind Onshore", <<"F", "R", "2">>, IntYear(2050), NumValue(Num(60)), "GWh") >>],
       [name |-> "systemfuels.csv",
        rows |-> << Row("Capacity", "Nuclear", BE12_Plant, IntYear(2050), NumValue(Num(25)), "MW"),
                    Row("Generation", "Nuclear", BE12_Plant, StrYear(2050), NumValue(Num(219)), "GWh"),
                    Row("Generation", "Nuclear", ABE12, IntYear(2050), NumValue(Num(11)), "GWh"),
                    Row("Generation", "Nuclear", BE12_Plant, IntYear(2030), NumValue(Num(5)), "GWh"),
                    Row("Generation", "Nuclear", <<"B", "E", "_", "X">>, IntYear(2050), NumValue(Num(3)), "GWh"),
                    Row("Installed Capacity", "Wind Onshore", FR1, IntYear(2050), NumValue(Num(7)), "MW"),
                    Row("Capacity", "Nuclear", BE12_Plant, IntYear(2050), TextValue, "MW"),
                    Row("Generation", "Wind Onshore", FR1, IntYear(2030), TextValue, "GWh") >>] >>

\* the registry after each metric was resolved once
ResolvedEquations ==
    [metric \in Metrics |->
        CHOOSE e \in EquationLibrary :
            e.formula = CASE metric = "CAPACITY_FACTOR" -> F_CF
                          [] metric = "LCOE" -> F_LCOE
                          [] OTHER -> F_SUM]

StoreIntents ==
    { [metric |-> m, tech |-> s.tech, country |-> s.country, year |-> s.year] :
        m \in Metrics,
        s \in { [tech |-> "WIND", country |-> "FR", year |-> 2050],
                [tech |-> "NUCLEAR", country |-> "BE", year |-> 2050],
                [tech |-> "WIND", country |-> "FR", year |-> 2030],
                [tech |-> "", country |-> "", year |-> 0] } }

MaxCitations == 3

\* citations a run may record: two rows of one facility, the same without a
\* facility, and a fallback placeholder
CitationLists ==
    LET drawn ==
    { [source |-> "systemgenerators.csv", property |-> "Generation", value |-> v,
       unit |-> "GWh", tech |-> "Wind Onshore", has_facility |-> h,
       facility |-> IF h THEN FR1 ELSE <<>>, year |-> IntYear(2050)] :
          v \in {Num(100), Num(30)}, h \in BOOLEAN }
    \cup { FallbackCitation("GENERATION_GWh", Num(100),
                            [tech |-> "WIND", country |-> "FR", year |-> 2050]) }
    IN  UNION { [1..n -> drawn] : n \in 0..MaxCitations }

StoreInit ==
    /\ api_key = TRUE
    /\ equations = ResolvedEquations
    /\ dfs \in {LoadedTables, MixedTables}
    /\ value_cache = NoValues
    /\ last = NoCall
    /\ fb = NoFallbackCall
    /\ served = NoValues
    /\ parse = [pc |-> "idle"]
    /\ collector = [pc |-> "idle"]
    /\ chat = [pc |-> "idle"]
    /\ ev = NoEvaluation
    /\ crf = NoCrf

\* Step 6 of answer_query on a recorded list
DedupCall(citations) ==
    /\ last' = [NoCall EXCEPT !.op = "dedup", !.recorded = citations,
                              !.resp = [NoResponse EXCEPT !.citations = Dedup(citations, {})]]
    /\ UNCHANGED <<api_key, equations, dfs, value_cache, fb, served, ev, crf, parse, collector, chat>>

\* Pipeline.answer_query on the loaded tables, the equations being cached
PipelineAnswer(intent, mappings, fallbacks) ==
    \E done \in {PipelineAnswerOn(equations, dfs, intent, mappings, fallbacks,
                                   [text |-> "", len |-> 0])} :
        /\ last' = [NoCall EXCEPT !.op = "pipeline_answer", !.metric = intent.metric,
                       !.intent = intent,
                       !.cached_before = intent.metric \in DOMAIN equations,
                       !.eq = done.eq, !.value = done.value, !.path = done.path,
                       !.unit = done.resp.unit, !.asked_unit = done.asked_unit,
                       !.resp = done.resp, !.trace = done.trace,
                       !.variables = done.variables, !.recorded = done.recorded]
        /\ UNCHANGED <<api_key, equations, dfs, value_cache, fb, served, ev, crf, parse, collector, chat>>

StoreNext ==
    \/ \E intent \in StoreIntents :
          \E fallbacks \in [Unresolved(dfs, intent, equations[intent.metric].required)
                              -> CatalogOutcomes] :
              AnswerQuery(intent, Failed, fallbacks, [text |-> "", len |-> 0])
    \* get_mappings returns the candidate properties of each variable, or none
    \/ \E intent \in StoreIntents,
          mappings \in { [var_name \in VarNames |-> PropertyNames(var_name)],
                         [var_name \in VarNames |-> <<>>] } :
          \E fallbacks \in [SeqRange(equations[intent.metric].required) -> CatalogOutcomes] :
              PipelineAnswer(intent, mappings, fallbacks)
    \/ \E citations \in CitationLists : DedupCall(citations)

SpecStore == StoreInit /\ [][StoreNext]_vars

-----------------------------------------------------------------------------
(* The two row filters on drawn tables and filters *)

\* int(year) of the year given to _extract_data_from_csv
YearInt(year) == IF year.type = "absent" THEN 0 ELSE year.y

QueryInit ==
    /\ api_key = TRUE
    /\ equations = NoEquations
    /\ dfs \in {LoadedTables, MixedTables}
    /\ value_cache = NoValues
    /\ last = NoCall
    /\ fb = NoFallbackCall
    /\ served = NoValues
    /\ parse = [pc |-> "idle"]
    /\ collector = [pc |-> "idle"]
    /\ chat = [pc |-> "idle"]
    /\ ev = NoEvaluation
    /\ crf = NoCrf

\* _extract_data_from_csv(df, filters, property_name) on one loaded table
ExtractCall(t, tech, country, year, property) ==
    /\ last' = [NoCall EXCEPT
                  !.op = "extract", !.table = dfs[t].name, !.property = property,
                  !.intent = [metric |-> "", tech |-> tech, country |-> country,
                              year |-> YearInt(year)],
                  !.year = year,
                  !.rows = ExtractData(dfs[t].rows,
                                       [tech |-> tech, country |-> country,
                                        year |-> YearInt(year)], property)]
    /\ UNCHANGED <<api_key, equations, dfs, value_cache, fb, served, ev, crf, parse, collector, chat>>

\* csv_store.query(filters, properties); no allow-list is the empty sequence
QueryCall(tech, country, year, properties) ==
    /\ last' = [NoCall EXCEPT
                  !.op = "query", !.properties = properties,
                  !.intent = [metric |-> "", tech |-> tech, country |-> country,
                              year |-> YearInt(year)],
                  !.year = year,
                  !.rows = Query(dfs, [tech |-> tech, country |-> country, year |-> year],
                                 properties)]
    /\ UNCHANGED <<api_key, equations, dfs, value_cache, fb, served, ev, crf, parse, collector, chat>>

\* csv_store.list_available_properties()
ListAvailableProperties ==
    /\ last' = [NoCall EXCEPT
                  !.op = "list_available_properties",
                  !.values = UNION {{dfs[t].rows[r].property_name : r \in DOMAIN dfs[t].rows} :
                                       t \in DOMAIN dfs}]
    /\ UNCHANGED <<api_key, equations, dfs, value_cache, fb, served, ev, crf, parse, collector, chat>>

\* csv_store.get_unique_values(column); a column no table has gives no value
GetUniqueValues(column) ==
    /\ last' = [NoCall EXCEPT
                  !.op = "get_unique_values", !.column = column,
                  !.values = IF column \in {"property_name", "category_name", "unit_name"}
                             THEN UNION {{dfs[t].rows[r][column] : r \in DOMAIN dfs[t].rows} :
                                            t \in DOMAIN dfs}
                             ELSE {}]
    /\ UNCHANGED <<api_key, equations, dfs, value_cache, fb, served, ev, crf, parse, collector, chat>>

QueryNext ==
    \/ \E tech \in {"", "WIND", "NUCLEAR"}, country \in {"", "FR", "BE"},
          year \in {NoYear, IntYear(2050), StrYear(2050), IntYear(2030)},
          property \in {"Generation", "Capacity", "Installed Capacity"} :
           \/ \E t \in DOMAIN dfs : ExtractCall(t, tech, country, year, property)
           \/ \E properties \in {<<>>, <<property>>, <<property, "Capacity">>} :
                  QueryCall(tech, country, year, properties)
    \/ ListAvailableProperties
    \/ \E column \in {"property_name", "category_name", "unit_name", "region"} :
           GetUniqueValues(column)

SpecQuery == QueryInit /\ [][QueryNext]_vars

C13_YearFilterExact ==
    (last.op \in {"extract", "query"} /\ last.year # NoYear) =>
        LET others == IF last.op = "extract"
                      THEN ExtractData(dfs[CHOOSE t \in DOMAIN dfs : dfs[t].name = last.table].rows,
                                       [tech |-> last.intent.tech,
                                        country |-> last.intent.country,
                                        year |-> 0], last.property)
                      ELSE Query(dfs, [tech |-> last.intent.tech,
                                       country |-> last.intent.country,
                                       year |-> NoYear], last.properties)
            OfYear(item) == item.year.y = last.year.y
        IN  last.rows = SelectSeq(others, OfYear)

\* C15: when answer_query calls evaluate, the binding has exactly the
\* required names as keys and every one of them is bound to a number (a
\* fallback value where no data was found), never to null; the inputs of a
\* returned response have the same keys.
C15_RequiredAllBoundToNumbers ==
    (last.op \in {"answer_query", "pipeline_answer"} /\ last.trace.n_evaluate > 0) =>
        LET required == equations[last.metric].required
        IN  /\ Keys(last.variables) = SeqRange(required)
            /\ \A i \in DOMAIN last.variables : IsNum(last.variables[i].v)
            /\ last.resp.outcome = "returned" =>
                   Keys(last.resp.inputs) = SeqRange(required)

\* C16: for each required variable the candidate property names are taken in
\* their listed order; the binding is the sum of the values of all rows the
\* first candidate with at least one matching row matches, that variable's
\* citations are those rows, one each, and rows of a later candidate or of
\* another property contribute to neither.
C16_FirstCandidateWins ==
    (last.op = "answer_query" /\ last.trace.n_evaluate > 0) =>
        \A var_name \in SeqRange(equations[last.metric].required) :
            LET candidates == PropertyNames(var_name)
                filters == FiltersOf(last.intent)
                Numeric(row) == row.value.kind = "num"
                MatchedIn(t, p) ==
                    SelectSeq(dfs[t].rows,
                              LAMBDA row : RowMatches(row, filters, p) /\ Numeric(row))
                Total(p) ==
                    LET RECURSIVE Over(_)
                        Over(t) == IF t = 0 THEN Num(0)
                                   ELSE Add(Over(t - 1),
                                            LET rows == MatchedIn(t, p)
                                                RECURSIVE SumOf(_)
                                                SumOf(k) == IF k = 0 THEN Num(0)
                                                            ELSE Add(SumOf(k - 1), rows[k].value.x)
                                            IN  SumOf(Len(rows)))
                    IN  Over(Len(dfs))
                Count(p) ==
                    LET RECURSIVE Over(_)
                        Over(t) == IF t = 0 THEN 0 ELSE Over(t - 1) + Len(MatchedIn(t, p))
                    IN  Over(Len(dfs))
                yielding == {i \in DOMAIN candidates : Count(candidates[i]) > 0}
                cited == SelectSeq(last.recorded,
                                   LAMBDA c : /\ c.source # "fallback_values"
                                              /\ \E i \in DOMAIN candidates : c.property = candidates[i])
            IN  IF yielding = {}
                THEN cited = <<>>
                ELSE LET first == candidates[SetMin(yielding)]
                     IN  /\ Lookup(last.variables, var_name) = Total(first)
                         /\ Len(cited) = Count(first)
                         /\ \A i \in DOMAIN cited : cited[i].property = first

\* C17: the binding is filled in the order of the required list; every
\* variable filled by a fallback value gets exactly one citation, with source
\* "fallback_values" and unit "fallback", and these citations stand in the
\* recorded and in the returned citations in the order of their variables in
\* the required list.  In EnhancedPipeline the variables filled by a fallback
\* value are those for which no candidate property has a matching row.
C17_FallbackCitationsInRequiredOrder ==
    (last.op \in {"answer_query", "pipeline_answer"} /\ last.trace.n_evaluate > 0) =>
        LET required == equations[last.metric].required
            filters == FiltersOf(last.intent)
            HasData(var_name) ==
                \E t \in DOMAIN dfs : \E r \in DOMAIN dfs[t].rows :
                    \E i \in DOMAIN PropertyNames(var_name) :
                        /\ RowMatches(dfs[t].rows[r], filters, PropertyNames(var_name)[i])
                        /\ dfs[t].rows[r].value.kind = "num"
            cited == {last.recorded[i].property : i \in DOMAIN last.recorded}
            unresolved ==
                IF last.op = "answer_query"
                THEN SelectSeq(required, LAMBDA var_name : ~HasData(var_name))
                ELSE SelectSeq(required,
                               LAMBDA var_name :
                                   \A i \in DOMAIN PropertyNames(var_name) :
                                       PropertyNames(var_name)[i] \notin cited)
            Tagged(c) == c.source = "fallback_values"
            InOrder(citations) ==
                LET tagged == SelectSeq(citations, Tagged)
                IN  /\ Len(tagged) = Len(unresolved)
                    /\ \A i \in DOMAIN tagged :
                          tagged[i].property = unresolved[i] /\ tagged[i].unit = "fallback"
        IN  /\ [i \in DOMAIN last.variables |-> last.variables[i].k] = required
            /\ last.trace.n_fallback = Len(unresolved)
            /\ InOrder(last.recorded)
            /\ \A i \in DOMAIN last.recorded :
                  last.recorded[i].unit = "fallback" => Tagged(last.recorded[i])
            /\ last.resp.outcome = "returned" => InOrder(last.resp.citations)

\* C18: every loaded table is searched and every citation of a data row
\* names the table of its row: a table of that name holds a row with the
\* citation's property, child name, year and (where the citation carries one)
\* value, and every row of any table that the filters admit for a cited
\* property is cited under its own table's name.
C18_CitationNamesItsTable ==
    (last.op \in {"answer_query", "pipeline_answer"} /\ last.trace.n_evaluate > 0) =>
        LET data == SelectSeq(last.recorded, LAMBDA c : c.source # "fallback_values")
            Admitted(row, property) ==
                IF last.op = "answer_query"
                THEN RowMatches(row, FiltersOf(last.intent), property)
                         /\ row.value.kind = "num"
                ELSE QueryMatches(row, PipelineFilters(last.intent), <<property>>)
        IN  /\ \A i \in DOMAIN data :
                  \E t \in DOMAIN dfs : \E r \in DOMAIN dfs[t].rows :
                      LET row == dfs[t].rows[r]
                      IN  /\ dfs[t].name = data[i].source
                          /\ row.property_name = data[i].property
                          /\ row.child_name = data[i].facility
                          /\ row.date_string = data[i].year
                          /\ data[i].value # None => row.value = NumValue(data[i].value)
            /\ \A t \in DOMAIN dfs : \A r \in DOMAIN dfs[t].rows :
                  LET row == dfs[t].rows[r]
                  IN  (/\ \E i \in DOMAIN data : data[i].property = row.property_name
                       /\ Admitted(row, row.property_name)) =>
                          \E i \in DOMAIN data :
                              /\ data[i].source = dfs[t].name
                              /\ data[i].property = row.property_name
                              /\ data[i].facility = row.child_name
                              /\ data[i].year = row.date_string

-----------------------------------------------------------------------------
(* Claims on EquationRegistry.evaluate, continued *)

\* C21: when parsing or evaluating the formula throws, evaluate returns a
\* bound variable only if exactly one bound name begins with UNIT_ or
\* GENERATOR_; with none or with two or more the failure propagates and
\* evaluate returns null.
C21_RecoveryNeedsExactlyOne ==
    (ev.pc = "done" /\ ev.path \in {"recovery", "error"}) =>
        LET reserved == {i \in DOMAIN ev.variables :
                            StartsWithUnitOrGenerator(ev.variables[i].k)}
        IN  IF Cardinality(reserved) = 1
            THEN ev.path = "recovery" /\ \A i \in reserved : ev.raw = ev.variables[i].v
            ELSE ev.path = "error" /\ ev.ret = None

\* C25: two evaluate calls with the same metric and the same name-to-value
\* bindings return the same result whatever the insertion order of the
\* bindings, and a call leaves the bindings and the cached equations as they
\* were.
C25_EvaluateIsPure ==
    /\ [](ev.pc = "again" =>
            /\ Keys(ev.reordered) = Keys(ev.variables)
            /\ \A name \in Keys(ev.variables) :
                  Lookup(ev.reordered, name) = Lookup(ev.variables, name)
            /\ ev.again = ev.ret)
    /\ [][(ev.pc # "idle" /\ ev'.pc # ev.pc) =>
              (equations' = equations /\ ev'.variables = ev.variables)]_vars

\* C27: for CAPACITY_FACTOR the capacity-factor step applies to the value of
\* whichever path ran, a simplification (a), (b), (c), the general parse or
\* the recovery step: a raw value below 1 is returned multiplied by 100.
C27_ScalingOnEveryPath ==
    (/\ ev.pc = "done" /\ ev.metric = "CAPACITY_FACTOR"
     /\ ev.path \in {"sum_unit", "direct", "index_range", "general", "recovery"}
     /\ IsNum(ev.raw) /\ Less(ev.raw, Num(1))) =>
        ev.ret = Mul(Num(100), ev.raw)

\* C23: when a required variable has no matching rows and the fallback gives
\* no usable value, the variable is bound to null, evaluate stops on its
\* missing-variables condition, and answer_query returns a response whose
\* result is null.
C23_NullBindingEndsWithNullResult ==
    (/\ last.op \in {"answer_query", "pipeline_answer"} /\ last.trace.n_evaluate > 0
     /\ \E i \in DOMAIN last.variables : last.variables[i].v = None) =>
        /\ last.path = "missing"
        /\ last.resp.outcome = "returned"
        /\ last.resp.result = None

\* C24: a matching row whose value is not a number is skipped: the binding of
\* a variable resolved from data is the sum of the values of its cited rows,
\* every cited row is a row with a numeric value, a candidate all of whose
\* matching rows are non-numeric yields no data, and the aggregation is never
\* aborted: once the equation has required variables, evaluate is reached.
C24_NonNumericRowsSkipped ==
    /\ (last.op = "answer_query" /\ last.trace.n_evaluate > 0) =>
          \A var_name \in SeqRange(equations[last.metric].required) :
              LET candidates == SeqRange(PropertyNames(var_name))
                  cited == SelectSeq(last.recorded,
                                     LAMBDA c : c.source # "fallback_values"
                                                   /\ c.property \in candidates)
                  RECURSIVE SumOf(_)
                  SumOf(k) == IF k = 0 THEN Num(0) ELSE Add(SumOf(k - 1), cited[k].value)
                  numeric == {p \in candidates :
                                 \E t \in DOMAIN dfs : \E r \in DOMAIN dfs[t].rows :
                                     /\ RowMatches(dfs[t].rows[r], FiltersOf(last.intent), p)
                                     /\ dfs[t].rows[r].value.kind = "num"}
              IN  /\ cited # <<>> => Lookup(last.variables, var_name) = SumOf(Len(cited))
                  /\ \A i \in DOMAIN cited :
                        \E t \in DOMAIN dfs : \E r \in DOMAIN dfs[t].rows :
                            /\ dfs[t].rows[r].property_name = cited[i].property
                            /\ dfs[t].rows[r].child_name = cited[i].facility
                            /\ dfs[t].rows[r].value = NumValue(cited[i].value)
                  /\ numeric = {} => cited = <<>>
    /\ (/\ last.op \in {"answer_query", "pipeline_answer"}
        /\ last.metric # "" /\ equations[last.metric].required # <<>>) =>
          last.trace.n_evaluate > 0

-----------------------------------------------------------------------------
(* Claims on CSVStore, continued *)

\* C26: no call of query, list_available_properties or get_unique_values (nor
\* of _extract_data_from_csv) changes a loaded table; a query returns one row
\* per matching row of the tables, so the empty list when none matches; and
\* with an allow-list no returned row has a property_name outside it.
C26_StoreReadOnly ==
    /\ [][dfs' = dfs]_vars
    /\ [](last.op = "query" =>
            LET filters == [tech |-> last.intent.tech, country |-> last.intent.country,
                            year |-> last.year]
                OtherFilters(row) == QueryMatches(row, filters, <<>>)
                admitted == {tr \in UNION {{<<t, r>> : r \in DOMAIN dfs[t].rows} : t \in DOMAIN dfs} :
                                /\ OtherFilters(dfs[tr[1]].rows[tr[2]])
                                /\ last.properties # <<>> =>
                                      dfs[tr[1]].rows[tr[2]].property_name
                                          \in SeqRange(last.properties)}
            IN  /\ Len(last.rows) = Cardinality(admitted)
                /\ admitted = {} => last.rows = <<>>
                /\ last.properties # <<>> =>
                      \A i \in DOMAIN last.rows :
                          last.rows[i].property \in SeqRange(last.properties))
    /\ [](last.op = "list_available_properties" =>
            \A t \in DOMAIN dfs : \A r \in DOMAIN dfs[t].rows :
                dfs[t].rows[r].property_name \in last.values)

\* a query with a two-name allow-list returned rows while another row passing
\* the other filters has a property outside the list
C26_Witness ==
    /\ last.op = "query" /\ Len(last.properties) = 2 /\ last.rows # <<>>
    /\ dfs \in {LoadedTables, MixedTables}
    /\ \E t \in DOMAIN dfs : \E r \in DOMAIN dfs[t].rows :
          /\ QueryMatches(dfs[t].rows[r],
                          [tech |-> last.intent.tech, country |-> last.intent.country,
                           year |-> last.year], <<>>)
          /\ dfs[t].rows[r].property_name \notin SeqRange(last.properties)

-----------------------------------------------------------------------------
(* Claims on the fallback-value cache, continued *)

\* C28: a value is answered from the cache only to the request that stored
\* it: when the second call of a run is answered from the cache, the entry
\* was stored by the first call, and the two calls have the same variable,
\* tech, country and year.
C28_CacheEntryPerRequest ==
    [][(fb.calls = 1 /\ fb'.calls = 2 /\ api_key /\ ~fb'.called) =>
          (fb'.canonical_var = fb.canonical_var /\ fb'.filters = fb.filters)]_vars

-----------------------------------------------------------------------------
(* LLMProvider.parse_nfg_intent *)

max_retries == 3
MaxQueries == 2

\* What the knowledge source may do with a prompt: "error", it raises
\* (complete and generate_completion then return ""); "text", it replies
\* text that is not JSON; "object", the JSON object asked for;
\* "other_object", a JSON object of another shape; "list", a JSON list.

ParseInit ==
    /\ api_key \in BOOLEAN
    /\ parse \in {[pc |-> "idle", enhanced |-> e, keyword_cache |-> "none", queries |-> 0]
                     : e \in BOOLEAN}
    /\ equations = NoEquations
    /\ dfs = LoadedTables
    /\ value_cache = NoValues
    /\ last = NoCall
    /\ fb = NoFallbackCall
    /\ served = NoValues
    /\ ev = NoEvaluation
    /\ crf = NoCrf
    /\ collector = [pc |-> "idle"]
    /\ chat = [pc |-> "idle"]

\* parse_nfg_intent(text) is entered: the prompt is built, the loop starts.
\* parse.enhanced: semantic.llm_provider_enhanced was imported, which sets
\* LLMProvider.extract_json_from_response; parse.keyword_cache: what
\* _keyword_cache holds
ParseNfgIntent ==
    /\ parse.pc \in {"idle", "done"}
    /\ parse.queries < MaxQueries
    /\ parse' = [pc |-> "loop", enhanced |-> parse.enhanced,
                 keyword_cache |-> parse.keyword_cache, queries |-> parse.queries + 1,
                 attempt |-> 0, calls |-> 0, sleeps |-> 0, replies |-> <<>>,
                 source |-> "", outcome |-> "", keys |-> {}]
    /\ UNCHANGED <<api_key, equations, dfs, value_cache, last, fb, served, ev, crf,
                   collector, chat>>

\* one pass of the loop body.  complete() returns "" without a call when there
\* is no API key.  With extract_json_from_response set on the class the call
\* self.extract_json_from_response(result) passes two arguments to a function
\* of one and raises TypeError, which the outer handler takes as a failed
\* attempt; otherwise json.loads decides, and a parsed value that is no
\* object raises in the field loop
ParseAttempt(reply) ==
    /\ parse.pc = "loop"
    /\ parse.attempt < max_retries
    /\ LET result == IF api_key THEN reply ELSE "error"
           parsed == ~parse.enhanced /\ result \in {"object", "other_object"}
       IN  parse' = [parse EXCEPT
                       !.calls = IF api_key THEN @ + 1 ELSE @,
                       !.replies = Append(@, result),
                       !.attempt = IF parsed THEN @ ELSE @ + 1,
                       !.sleeps = IF parsed THEN @ ELSE @ + 1,
                       !.pc = IF parsed THEN "done" ELSE "loop",
                       !.source = IF parsed THEN "llm" ELSE @,
                       !.outcome = IF parsed THEN "returned" ELSE @,
                       !.keys = IF parsed
                                THEN (IF result = "object" THEN {"fuel", "operation"} ELSE {"answer"})
                                         \cup {"metric", "tech", "country", "year", "confidence"}
                                ELSE @]
    /\ UNCHANGED <<api_key, equations, dfs, value_cache, last, fb, served, ev, crf,
                   collector, chat>>

\* the loop is exhausted: _enhanced_regex_fallback(text).  With an API key
\* it takes its keywords from _generate_keyword_mappings, which asks the
\* knowledge source unless _keyword_cache holds a reply, and caches whatever
\* json.loads accepted; a cached list fails inside the try (minimal keywords
\* are used), a cached object of another shape fails at metrics.items()
EnhancedRegexFallback(reply) ==
    /\ parse.pc = "loop"
    /\ parse.attempt = max_retries
    /\ LET asks == api_key /\ parse.keyword_cache = "none"
           keywords_map == IF ~api_key THEN "none"
                           ELSE IF ~asks THEN parse.keyword_cache
                           ELSE IF reply \in {"error", "text"} THEN "none"
                           ELSE reply
           raised == keywords_map = "other_object"
       IN  parse' = [parse EXCEPT
                       !.calls = IF asks THEN @ + 1 ELSE @,
                       !.keyword_cache = IF asks THEN keywords_map ELSE @,
                       !.pc = "done",
                       !.source = "regex",
                       !.outcome = IF raised THEN "raised" ELSE "returned",
                       !.keys = IF raised THEN {}
                                ELSE {"metric", "tech", "fuel", "network", "country", "year",
                                      "operation", "confidence"}]
    /\ UNCHANGED <<api_key, equations, dfs, value_cache, last, fb, served, ev, crf,
                   collector, chat>>

ParseNext ==
    \/ ParseNfgIntent
    \/ \E reply \in {"error", "text", "object", "other_object", "list"} : ParseAttempt(reply)
    \/ \E reply \in {"error", "text", "object", "other_object", "list"} : EnhancedRegexFallback(reply)

SpecParse == ParseInit /\ [][ParseNext]_vars

\* C22: a parse_nfg_intent call makes at most max_retries calls to the
\* knowledge source, sleeps once per failed attempt, returns the intent of the
\* first reply that is a JSON object and the regex-fallback intent after
\* max_retries failed attempts, and what it returns has the keys metric,
\* tech, country, year and confidence.
C22_IntentExtractionBounded ==
    parse.pc \in {"loop", "done"} =>
        /\ parse.calls <= max_retries
        /\ parse.attempt <= max_retries /\ parse.sleeps = parse.attempt
        /\ \A i \in DOMAIN parse.replies :
              parse.replies[i] \in {"object", "other_object"} =>
                  (i = Len(parse.replies) /\ parse.source = "llm")
        /\ parse.source = "llm" =>
              (parse.replies # <<>>
                  /\ parse.replies[Len(parse.replies)] \in {"object", "other_object"})
        /\ parse.source = "regex" => Len(parse.replies) = max_retries
        /\ parse.pc = "done" =>
              /\ parse.outcome = "returned"
              /\ {"metric", "tech", "country", "year", "confidence"} \subseteq parse.keys

-----------------------------------------------------------------------------
(* Metrics: the singleton and track_api_call from concurrent threads *)

MaxThreads == 2
MaxTracked == 2

MetricsInit ==
    /\ collector = [pc |-> "run", instances |-> 0,
                    llm_calls |-> 0, llm_errors |-> 0,
                    calls_by_model |-> [m \in {"gpt-3.5-turbo", "gpt-4"} |-> 0],
                    tracked |-> [m \in {"gpt-3.5-turbo", "gpt-4"} |-> 0],
                    threads |-> [t \in 1..MaxThreads |->
                                    [pc |-> "start", model |-> "", count |-> 0, done |-> 0]]]
    /\ api_key = TRUE
    /\ equations = NoEquations
    /\ dfs = LoadedTables
    /\ value_cache = NoValues
    /\ last = NoCall
    /\ fb = NoFallbackCall
    /\ served = NoValues
    /\ ev = NoEvaluation
    /\ crf = NoCrf
    /\ parse = [pc |-> "idle"]
    /\ chat = [pc |-> "idle"]

\* Metrics() in thread t: under the class lock, the first call creates the
\* instance and its zeroed counters, every call returns cls._instance
New(t) ==
    /\ collector.pc = "run"
    /\ collector.threads[t].pc = "start"
    /\ collector' = [collector EXCEPT
                       !.instances = IF @ = 0 THEN 1 ELSE @,
                       !.threads[t].pc = "ready"]
    /\ UNCHANGED <<api_key, equations, dfs, value_cache, last, fb, served, ev, crf,
                   parse, chat>>

\* track_api_call(model, ...) up to the end of record_llm_call(model, ...),
\* whose body runs under the lock; error is left at its default False.
\* A key that is absent counts 0
RecordLlmCall(t, model) ==
    /\ collector.pc = "run"
    /\ collector.threads[t].pc = "ready"
    /\ collector.threads[t].done < MaxTracked
    /\ collector' = [collector EXCEPT
                       !.llm_calls = @ + 1,
                       !.calls_by_model[model] = @ + 1,
                       !.threads[t].pc = "recorded",
                       !.threads[t].model = model]
    /\ UNCHANGED <<api_key, equations, dfs, value_cache, last, fb, served, ev, crf,
                   parse, chat>>

\* back in track_api_call, outside the lock: the read of
\* self._metrics["calls_by_model"][model] in `... += 1`
ReadCallsByModel(t) ==
    /\ collector.pc = "run"
    /\ collector.threads[t].pc = "recorded"
    /\ collector' = [collector EXCEPT
                       !.threads[t].pc = "read",
                       !.threads[t].count = collector.calls_by_model[collector.threads[t].model]]
    /\ UNCHANGED <<api_key, equations, dfs, value_cache, last, fb, served, ev, crf,
                   parse, chat>>

\* the store of `... += 1`; track_api_call returns
WriteCallsByModel(t) ==
    /\ collector.pc = "run"
    /\ collector.threads[t].pc = "read"
    /\ collector' = [collector EXCEPT
                       !.calls_by_model[collector.threads[t].model] =
                           collector.threads[t].count + 1,
                       !.tracked[collector.threads[t].model] = @ + 1,
                       !.threads[t].pc = "ready",
                       !.threads[t].done = @ + 1]
    /\ UNCHANGED <<api_key, equations, dfs, value_cache, last, fb, served, ev, crf,
                   parse, chat>>

MetricsNext ==
    \E t \in 1..MaxThreads :
        \/ New(t)
        \/ \E model \in {"gpt-3.5-turbo", "gpt-4"} : RecordLlmCall(t, model)
        \/ ReadCallsByModel(t)
        \/ WriteCallsByModel(t)

SpecMetrics == MetricsInit /\ [][MetricsNext]_vars

\* C29: there is at most one Metrics instance, and whenever no track_api_call
\* is in progress llm_calls is the number of completed calls,
\* calls_by_model[m] the number of completed calls for model m, their sum
\* llm_calls, and llm_errors at most llm_calls.
C29_EveryCallCountedOnce ==
    collector.pc = "run" =>
        /\ collector.instances <= 1
        /\ collector.llm_errors <= collector.llm_calls
        /\ (\A t \in 1..MaxThreads : collector.threads[t].pc \in {"start", "ready"}) =>
              /\ collector.llm_calls = collector.tracked["gpt-3.5-turbo"] + collector.tracked["gpt-4"]
              /\ \A m \in {"gpt-3.5-turbo", "gpt-4"} :
                    collector.calls_by_model[m] = collector.tracked[m]
              /\ collector.calls_by_model["gpt-3.5-turbo"] + collector.calls_by_model["gpt-4"]
                    = collector.llm_calls

-----------------------------------------------------------------------------
(* The chat endpoints of the API *)

MaxSessions == 2
MaxHistory == 4

\* chat_sessions = {} at import; app.state.pipeline is set by startup_event
\* unless it failed.  chat.created counts the uuid4 session ids handed out,
\* which are never handed out twice
ChatInit ==
    /\ chat \in {[pc |-> "run", has_pipeline |-> h, created |-> 0,
                  sessions |-> [id \in {} |-> <<>>],
                  resp |-> [op |-> "none", session_id |-> 0, status |-> 0, outcome |-> ""]]
                    : h \in BOOLEAN}
    /\ api_key = TRUE
    /\ equations = NoEquations
    /\ dfs = LoadedTables
    /\ value_cache = NoValues
    /\ last = NoCall
    /\ fb = NoFallbackCall
    /\ served = NoValues
    /\ ev = NoEvaluation
    /\ crf = NoCrf
    /\ parse = [pc |-> "idle"]
    /\ collector = [pc |-> "idle"]

\* what chat_message appends to a history: the user message, then the
\* assistant message built from the result ("answer" when result is not
\* None, "no_result" when it is), or the error message when the pipeline raised
ChatAppend_NoErrorMessage(history, outcome) ==
    IF outcome = "raised"
    THEN Append(history, [role |-> "user", content |-> "query"])
    ELSE history \o << [role |-> "user", content |-> "query"],
                       [role |-> "assistant", content |-> outcome] >>

ChatAppend(history, outcome) ==
    history \o << [role |-> "user", content |-> "query"],
                  [role |-> "assistant",
                   content |-> IF outcome = "raised" THEN "error" ELSE outcome] >>

\* POST /chat/session
CreateChatSession ==
    /\ chat.pc = "run"
    /\ chat.created < MaxSessions
    /\ chat' = [chat EXCEPT
                  !.created = @ + 1,
                  !.sessions = (chat.created + 1 :> <<>>) @@ @,
                  !.resp = [op |-> "create_chat_session", session_id |-> chat.created + 1,
                            status |-> 200, outcome |-> ""]]
    /\ UNCHANGED <<api_key, equations, dfs, value_cache, last, fb, served, ev, crf,
                   parse, collector>>

\* GET /chat/{session_id}
GetChatHistory(session_id) ==
    /\ chat.pc = "run"
    /\ chat' = [chat EXCEPT
                  !.resp = [op |-> "get_chat_history", session_id |-> session_id,
                            status |-> IF session_id \in DOMAIN chat.sessions THEN 200 ELSE 404,
                            outcome |-> ""]]
    /\ UNCHANGED <<api_key, equations, dfs, value_cache, last, fb, served, ev, crf,
                   parse, collector>>

\* POST /chat/{session_id}; outcome is what pipeline.answer_query does with
\* the query.  The handler has no await: it runs to its end before the next
\* request is served
ChatMessage(session_id, outcome) ==
    /\ chat.pc = "run"
    /\ session_id \in DOMAIN chat.sessions => Len(chat.sessions[session_id]) < MaxHistory
    /\ chat' = IF session_id \notin DOMAIN chat.sessions
               THEN [chat EXCEPT !.resp = [op |-> "chat_message", session_id |-> session_id,
                                           status |-> 404, outcome |-> ""]]
               ELSE IF ~chat.has_pipeline
               THEN [chat EXCEPT !.resp = [op |-> "chat_message", session_id |-> session_id,
                                           status |-> 503, outcome |-> ""]]
               ELSE [chat EXCEPT
                       !.sessions[session_id] = ChatAppend(@, outcome),
                       !.resp = [op |-> "chat_message", session_id |-> session_id,
                                 status |-> 200, outcome |-> outcome]]
    /\ UNCHANGED <<api_key, equations, dfs, value_cache, last, fb, served, ev, crf,
                   parse, collector>>

\* DELETE /chat/{session_id}
DeleteChatSession(session_id) ==
    /\ chat.pc = "run"
    /\ chat' = IF session_id \notin DOMAIN chat.sessions
               THEN [chat EXCEPT !.resp = [op |-> "delete_chat_session",
                                           session_id |-> session_id,
                                           status |-> 404, outcome |-> ""]]
               ELSE [chat EXCEPT
                       !.sessions = [id \in DOMAIN @ \ {session_id} |-> @[id]],
                       !.resp = [op |-> "delete_chat_session", session_id |-> session_id,
                                 status |-> 200, outcome |-> ""]]
    /\ UNCHANGED <<api_key, equations, dfs, value_cache, last, fb, served, ev, crf,
                   parse, collector>>

ChatNext ==
    \/ CreateChatSession
    \/ \E session_id \in 1..MaxSessions :
          \/ GetChatHistory(session_id)
          \/ \E outcome \in {"answer", "no_result", "raised"} : ChatMessage(session_id, outcome)
          \/ DeleteChatSession(session_id)

SpecChat == ChatInit /\ [][ChatNext]_vars

\* C30: every existing session's history alternates user, assistant, ...; an
\* accepted chat message appends to its session exactly one user message and
\* then one assistant message (the error message when the pipeline raised) and
\* changes no other session; a get, chat or delete request on a session that
\* does not exist is answered 404, and a 404 changes no session.
C30_HistoryAlternates ==
    /\ [](chat.pc = "run" =>
            \A id \in DOMAIN chat.sessions :
                /\ Len(chat.sessions[id]) % 2 = 0
                /\ \A i \in DOMAIN chat.sessions[id] :
                      chat.sessions[id][i].role = IF i % 2 = 1 THEN "user" ELSE "assistant")
    /\ [][LET id == chat'.resp.session_id
              known == id \in DOMAIN chat.sessions
          IN  /\ (chat'.resp.op = "chat_message" /\ chat'.resp.status = 200) =>
                    /\ known
                    /\ DOMAIN chat'.sessions = DOMAIN chat.sessions
                    /\ \A other \in DOMAIN chat.sessions \ {id} :
                          chat'.sessions[other] = chat.sessions[other]
                    /\ Len(chat'.sessions[id]) = Len(chat.sessions[id]) + 2
                    /\ SubSeq(chat'.sessions[id], 1, Len(chat.sessions[id])) = chat.sessions[id]
                    /\ chat'.sessions[id][Len(chat.sessions[id]) + 1].role = "user"
                    /\ chat'.sessions[id][Len(chat.sessions[id]) + 2].role = "assistant"
                    /\ chat'.resp.outcome = "raised" <=>
                          chat'.sessions[id][Len(chat.sessions[id]) + 2].content = "error"
              /\ (chat'.resp.op \in {"get_chat_history", "chat_message", "delete_chat_session"}
                    /\ ~known) => chat'.resp.status = 404
              /\ chat'.resp.status = 404 => (~known /\ chat'.sessions = chat.sessions)
       ]_vars

\* a chat message on a deleted session was answered 404 while the other
\* session holds two exchanges, one of them ended by the error message
C30_Witness ==
    /\ chat.pc = "run" /\ chat.created = 2 /\ DOMAIN chat.sessions = {2}
    /\ chat.resp.op = "chat_message" /\ chat.resp.session_id = 1 /\ chat.resp.status = 404
    /\ Len(chat.sessions[2]) = 4
    /\ chat.sessions[2][2].content = "error" /\ chat.sessions[2][4].content = "answer"

====
